---- MODULE Spec2Model ----
(***************************************************************************)
(* Model of nostr-explore-mcp:                                             *)
(*   the notification subsystem (NotificationStorage, NotificationBuilder, *)
(*   NotificationService, SubscriptionManager, EventProcessor), the        *)
(*   get_conversation tool, the conversation tracker, the content          *)
(*   resolver, and the resource subscriptions (ResourceSubscriptionManager,*)
(*   the resources/subscribe and resources/unsubscribe handlers, the feed  *)
(*   resource).                                                            *)
(*                                                                         *)
(* A JavaScript string is modelled as a sequence of tokens (each token a   *)
(* TLA+ string standing for one or more characters), so that template      *)
(* literals are concatenations and substring(0, 8) is a prefix.            *)
(* A JavaScript Map is modelled as the sequence of its entries in          *)
(* insertion order.                                                        *)
(***************************************************************************)
EXTENDS Integers, Sequences, FiniteSets, TLC

\* ------------------------------------------------------------------ bounds
\* Largest capacity a NotificationStorage is constructed with in StoreSpec.
MaxCapacity == 3
\* Number of store() calls explored on one NotificationStorage.
MaxStores == 4
\* Largest value of the wall clock (seconds).
MaxTime == 1
\* Number of NotificationService objects created in EngineSpec.
MaxServices == 2
\* Number of events the Event Source delivers in EngineSpec.
MaxDeliveries == 1
\* Number of addSubscription calls suspended at the same time.
MaxPending == 2
\* Number of times the Event Source gains or loses an event during one
\* get_conversation call.
MaxRelayChanges == 1
\* Largest number of tags of an event handed to the EventProcessor.
MaxTags == 2
\* Largest maxDepth option resolveNostrContent is called with.
MaxDepth == 2
\* Number of live queries the ResourceSubscriptionManager opens.
MaxLiveQueries == 2
\* Number of subscribe() calls suspended at the same time.
MaxSuspended == 1
\* Number of events the Event Source delivers on resource live queries.
MaxUpdates == 2
\* Number of feed reads collecting events at the same time.
MaxReads == 1
\* events delivered to the monitored service of MonitorSpec
MaxHandled == 4
\* iterations of the path walk followed in WalkSpec
MaxWalk == 4
\* largest limit and thread_depth arguments of the conversation tracker
MaxLimit == 2
MaxThreadDepth == 3

VARIABLES
    now,          \* Math.floor(Date.now() / 1000)
    storage,      \* StoreSpec: one NotificationStorage object
    calls,        \* StoreSpec (history): number of store() calls made since
                  \*   construction or the last clear()
    scen,         \* StoreSpec (history): how many calls of the scenario
                  \*   store k1, store k2, store k3 a fresh store has seen
                  \*   (-1 once the calls have left the scenario)
    age,          \* StoreSpec (history): key still present -> number of the
                  \*   store() call that inserted it while it was absent
    storeOp,      \* StoreSpec (history): the last operation and its result
    services,     \* SubscriptionManager.services: Map pubkey -> service id
    svc,          \* the NotificationService objects created so far, by id
    liveQueries,  \* the live queries open at the Event Source (by the id of
                  \*   the service that opened them)
    pendingAdds,  \* addSubscription calls suspended at their await
    reconn,       \* handleReconnection: its position and local variables
    deliveries,   \* number of events the Event Source has delivered
    lastOp,       \* EngineSpec (history): the last operation and its result
    removed,      \* EngineSpec (history): identities whose removeSubscription
                  \*   returned true with no call in flight, not added since
    atReconnect,  \* EngineSpec (history): what was registered when the last
                  \*   handleReconnection started
    relay,        \* ThreadSpec: the events the Event Source holds
    relayChanges, \* ThreadSpec: number of changes of `relay` so far
    conv,         \* ThreadSpec: the get_conversation handler: its position,
                  \*   its local variables and its outcome; WalkSpec: the
                  \*   local variables of its path walk, one iteration a step
    cls,          \* ClassifySpec: the last event handed to the EventProcessor
                  \*   and what it returned
    rsv,          \* ResolveSpec: the resolveNostrContent call: its stack of
                  \*   activation records and its outcome
    qry,          \* RetrieveSpec: the last retrieve() call and what it
                  \*   returned
    rsm,          \* ResourceSpec: the ResourceSubscriptionManager, the live
                  \*   queries it opened, its suspended subscribe() calls,
                  \*   the callback invocations and the last request
    mon,          \* MonitorSpec: one monitoring NotificationService, the
                  \*   events delivered to its live query (history) and the
                  \*   outcome of the last delivery
    trk           \* TrackSpec: the last nostr_conversation_tracker call and
                  \*   the threads it returned

storeVars == <<storage, calls, scen, age, storeOp>>
engineVars == <<services, svc, liveQueries, pendingAdds, reconn, deliveries,
                lastOp, removed, atReconnect>>
threadVars == <<relay, relayChanges, conv>>
classifyVars == <<cls>>
resolveVars == <<rsv>>
queryVars == <<qry>>
resourceVars == <<rsm>>
monitorVars == <<mon>>
trackVars == <<trk>>
toolVars == <<threadVars, classifyVars, resolveVars, queryVars, resourceVars,
              monitorVars, trackVars>>
notThread == <<now, storeVars, engineVars, classifyVars, resolveVars, queryVars,
               resourceVars, monitorVars, trackVars>>
notClassify == <<now, storeVars, engineVars, threadVars, resolveVars, queryVars,
                 resourceVars, monitorVars, trackVars>>
notResolve == <<now, storeVars, engineVars, threadVars, classifyVars, queryVars,
                resourceVars, monitorVars, trackVars>>
notQuery == <<now, storeVars, engineVars, threadVars, classifyVars, resolveVars,
              resourceVars, monitorVars, trackVars>>
notResource == <<now, storeVars, engineVars, threadVars, classifyVars, resolveVars,
                 queryVars, monitorVars, trackVars>>
notMonitor == <<now, storeVars, engineVars, threadVars, classifyVars, resolveVars,
                queryVars, resourceVars, trackVars>>
notTrack == <<now, storeVars, engineVars, classifyVars, resolveVars, queryVars,
              resourceVars, monitorVars, conv>>
vars == <<now, storage, calls, scen, age, storeOp, services, svc, liveQueries,
          pendingAdds, reconn, deliveries, lastOp, removed, atReconnect,
          relay, relayChanges, conv, cls, rsv, qry, rsm, mon, trk>>

\* ------------------------------------------------------- JavaScript values
\* undefined, kept apart from every string
UNDEF == <<"<undefined>">>
\* the empty string
EMPTY == <<>>
Str(token) == <<token>>
\* v || w
OrElse(v, w) == IF v = UNDEF \/ v = EMPTY THEN w ELSE v
\* `${v}`
Template(v) == IF v = UNDEF THEN Str("undefined") ELSE v
\* s.substring(0, n)
Substring0(s, n) == SubSeq(s, 1, IF Len(s) < n THEN Len(s) ELSE n)

Min(a, b) == IF a < b THEN a ELSE b

\* ------------------------------------------------------------ Map helpers
MapHas(m, k) == \E i \in 1..Len(m) : m[i].key = k
MapKeys(m) == { m[i].key : i \in 1..Len(m) }
MapGet(m, k) == m[CHOOSE i \in 1..Len(m) : m[i].key = k].value
MapSet(m, k, v) ==
    IF MapHas(m, k)
    THEN [i \in 1..Len(m) |-> IF m[i].key = k THEN [key |-> k, value |-> v] ELSE m[i]]
    ELSE Append(m, [key |-> k, value |-> v])
MapDelete(m, k) == SelectSeq(m, LAMBDA e : e.key # k)
MapValues(m) == [i \in 1..Len(m) |-> m[i].value]
SeqRange(s) == { s[i] : i \in 1..Len(s) }

\* ------------------------------------------------------------------ inputs
\* Watched identities (agent pubkeys).  W1 and W2 agree on their first eight
\* characters, W3 is shorter than eight characters.
W1 == <<"a", "b", "c", "d", "e", "f", "0", "1", "2">>
W2 == <<"a", "b", "c", "d", "e", "f", "0", "1", "3">>
W3 == <<"f", "f">>
Pubkeys == {W1, W2, W3}

\* Source events delivered by the Event Source.
\* name and display_name are the fields of event.author.profile (UNDEF when
\* the profile has not been fetched).
SourceEvent(id, pk, created_at, kind, content, tags, name, display_name) ==
    [id |-> id, pubkey |-> pk, created_at |-> created_at, kind |-> kind,
     content |-> content, tags |-> tags,
     name |-> name, display_name |-> display_name]
Ev1 == SourceEvent(Str("e1"), Str("bob"), 0, 1, Str("hello"),
                   << <<Str("p"), W1>>, <<Str("p"), W2>> >>, Str("Bob"), UNDEF)
Ev2 == SourceEvent(Str("e2"), Str("carol"), 5, 7, EMPTY,
                   << <<Str("p"), Str("carol")>>, <<Str("p"), W1>>, <<Str("p"), W2>> >>,
                   UNDEF, UNDEF)
SourceEvents == {Ev1, Ev2}

\* ------------------------------------------------------ NotificationBuilder
KindDescription(kind) ==
    CASE kind = 0 -> Str("profile metadata update")
      [] kind = 1 -> Str("text note")
      [] kind = 3 -> Str("contact list update")
      [] kind = 4 -> Str("encrypted direct message")
      [] kind = 5 -> Str("event deletion request")
      [] kind = 6 -> Str("repost")
      [] kind = 7 -> Str("reaction")
      [] kind = 40 -> Str("channel creation")
      [] kind = 41 -> Str("channel metadata")
      [] kind = 42 -> Str("channel message")
      [] kind = 1984 -> Str("report")
      [] kind = 9735 -> Str("zap receipt")
      [] kind = 10002 -> Str("relay list")
      [] kind = 30023 -> Str("long-form content")
      [] OTHER -> UNDEF

generateEventSummary(event) ==
    LET eventType == OrElse(KindDescription(IF event.kind = 0 THEN 1 ELSE event.kind),
                            Str("kind ") \o Str(ToString(event.kind)) \o Str(" event"))
        author == OrElse(OrElse(event.name, event.display_name),
                         Substring0(event.pubkey, 8) \o Str("..."))
        contentPreview ==
            IF event.content = EMPTY THEN EMPTY
            ELSE Substring0(event.content, 100)
                 \o (IF Len(event.content) > 100 THEN Str("...") ELSE EMPTY)
        hasMention == \E i \in 1..Len(event.tags) :
                          /\ event.tags[i][1] = Str("p")
                          /\ Len(event.tags[i]) >= 2
                          /\ event.tags[i][2] = event.pubkey
        action == IF hasMention THEN Str("mentioned you in") ELSE Str("created")
    IN  author \o Str(" ") \o action \o Str(" a ") \o eventType
        \o (IF contentPreview = EMPTY THEN EMPTY
            ELSE Str(": \"") \o contentPreview \o Str("\""))

extractEventMetadata(event, t) ==
    [sourceEventId |-> OrElse(event.id, EMPTY),
     sourceAuthorPubkey |-> event.pubkey,
     sourceEventKind |-> event.kind,
     timestamp |-> IF event.created_at = 0 THEN t ELSE event.created_at,
     summary |-> generateEventSummary(event)]

\* A plausible slip: the whole watched identity ends the discriminator.
generateDTagWholeKey(sourceEventId, agentPubkey) ==
    Str("notification-") \o Template(sourceEventId) \o Str("-") \o agentPubkey

generateDTag(sourceEventId, agentPubkey) ==
    Str("notification-") \o Template(sourceEventId) \o Str("-")
        \o Substring0(agentPubkey, 8)

\* t is the value of Math.floor(Date.now() / 1000) at the call
buildNotificationEvent(sourceEvent, agentPubkey, t) ==
    LET metadata == extractEventMetadata(sourceEvent, t)
        dTag == generateDTag(sourceEvent.id, agentPubkey)
    IN  [pubkey |-> agentPubkey,
         created_at |-> t,
         kind |-> 1616,
         tags |-> << <<Str("e"), metadata.sourceEventId>>,
                     <<Str("p"), metadata.sourceAuthorPubkey>>,
                     <<Str("k"), Str(ToString(metadata.sourceEventKind))>>,
                     <<Str("d"), dTag>> >>,
         content |-> metadata.summary]

\* ------------------------------------------------------ NotificationStorage
\* notification.tags.find(t => t[0] === "d")?.[1]
FindDTag(tags) ==
    IF \E i \in 1..Len(tags) : Len(tags[i]) >= 1 /\ tags[i][1] = Str("d")
    THEN LET i == CHOOSE j \in 1..Len(tags) :
                      /\ Len(tags[j]) >= 1 /\ tags[j][1] = Str("d")
                      /\ \A h \in 1..(j - 1) : ~(Len(tags[h]) >= 1 /\ tags[h][1] = Str("d"))
         IN  IF Len(tags[i]) >= 2 THEN tags[i][2] ELSE UNDEF
    ELSE UNDEF

\* A plausible slip: the key ignores the discriminator tag.
generateKeyNoDTag(notification) ==
    Str(ToString(notification.created_at)) \o Str("-") \o notification.pubkey

generateKey(notification) ==
    OrElse(FindDTag(notification.tags),
           Str(ToString(notification.created_at)) \o Str("-") \o notification.pubkey)

NewStorage(maxSize) ==
    [notifications |-> <<>>, notificationOrder |-> <<>>, maxSize |-> maxSize]

\* A plausible slip: nothing is evicted.
pruneNothing(st) == st

RECURSIVE prune(_)
prune(st) ==
    IF Len(st.notificationOrder) > st.maxSize
    THEN LET oldestKey == Head(st.notificationOrder)
         IN  prune([st EXCEPT
                 !.notificationOrder = Tail(st.notificationOrder),
                 !.notifications = IF oldestKey # EMPTY
                                   THEN MapDelete(st.notifications, oldestKey)
                                   ELSE st.notifications])
    ELSE st

\* A plausible slip: a re-stored key is moved to the newest position (LRU).
storeMoveToEnd(st, notification) ==
    LET key == generateKey(notification)
        pushed == Append(SelectSeq(st.notificationOrder, LAMBDA k : k # key), key)
    IN  prune([st EXCEPT !.notificationOrder = pushed,
                         !.notifications = MapSet(st.notifications, key, notification)])

\* A plausible slip: the key is pushed on every call, present or not.
storeAlwaysPush(st, notification) ==
    LET key == generateKey(notification)
        pushed == Append(st.notificationOrder, key)
    IN  prune([st EXCEPT !.notificationOrder = pushed,
                         !.notifications = MapSet(st.notifications, key, notification)])

store(st, notification) ==
    LET key == generateKey(notification)
        pushed == IF ~MapHas(st.notifications, key)
                  THEN Append(st.notificationOrder, key)
                  ELSE st.notificationOrder
    IN  prune([st EXCEPT !.notificationOrder = pushed,
                         !.notifications = MapSet(st.notifications, key, notification)])

clear(st) == [st EXCEPT !.notifications = <<>>, !.notificationOrder = <<>>]

size(st) == Len(st.notifications)

export(st) == MapValues(st.notifications)

\* NotificationFilter fields are <<>> when absent and <<n>> when given.
NoFilters == [since |-> <<>>, until |-> <<>>, limit |-> <<>>]
\* if (filters.x): given and not 0
Given(f) == f # <<>> /\ f[1] # 0

\* results.sort((a, b) => b.created_at - a.created_at), a stable sort
RECURSIVE SortNewestFirst(_)
SortNewestFirst(ns) ==
    IF ns = <<>> THEN <<>>
    ELSE LET rest == SortNewestFirst(Tail(ns))
             n == Head(ns)
             \* n goes before the first element that is not newer than it
             pos == IF \E i \in 1..Len(rest) : rest[i].created_at <= n.created_at
                    THEN CHOOSE i \in 1..Len(rest) :
                             /\ rest[i].created_at <= n.created_at
                             /\ \A j \in 1..(i - 1) : rest[j].created_at > n.created_at
                    ELSE Len(rest) + 1
         IN  SubSeq(rest, 1, pos - 1) \o <<n>> \o SubSeq(rest, pos, Len(rest))

retrieve(st, filters) ==
    LET all == MapValues(st.notifications)
        r1 == IF Given(filters.since)
              THEN SelectSeq(all, LAMBDA n : n.created_at >= filters.since[1])
              ELSE all
        r2 == IF Given(filters.until)
              THEN SelectSeq(r1, LAMBDA n : n.created_at <= filters.until[1])
              ELSE r1
        r3 == SortNewestFirst(r2)
    IN  IF Given(filters.limit)
        THEN SubSeq(r3, 1, Min(Len(r3), filters.limit[1]))
        ELSE r3

\* no retrieve() call made yet
NoQuery == [called |-> FALSE, filters |-> NoFilters, results |-> <<>>]

\* ------------------------------------------------------ NotificationService
\* constructor default of maxStorageSize
DefaultMaxStorageSize == 1000
\* subscription === null
NoSubscription == 0

NewService(agentPubkey) ==
    [agentPubkey |-> agentPubkey,
     subscription |-> NoSubscription,
     storage |-> NewStorage(DefaultMaxStorageSize),
     eventCount |-> 0,
     startTime |-> 0]

isMonitoring(service) == service.subscription # NoSubscription

\* the service after startMonitoring() opened live query q at time t (both
\* callers start a service once, right after constructing it, so the
\* "already active" throw of startMonitoring is never taken)
startMonitoring(service, q, t) ==
    [service EXCEPT !.startTime = t, !.subscription = q]

\* createNotification(event) throws a TypeError: generateEventSummary reads
\* event.pubkey.substring when the author has no profile name, which throws
\* on an event without a pubkey
createNotificationThrows(event) ==
    /\ OrElse(OrElse(event.name, event.display_name), UNDEF) = UNDEF
    /\ event.pubkey = UNDEF

\* A plausible slip: no try/catch around the handler's body.
handleIncomingEventNoCatch(service, event, t) ==
    LET counted == [service EXCEPT !.eventCount = service.eventCount + 1]
    IN  IF createNotificationThrows(event)
        THEN [service |-> counted, error |-> "thrown"]
        ELSE [service |-> [counted EXCEPT !.storage =
                              store(service.storage,
                                    buildNotificationEvent(event, service.agentPubkey, t))],
              error |-> "none"]

\* handleIncomingEvent(event) at time t: the service after it, and what
\* became of an error raised in its body ("none": no error, "caught": logged
\* by the catch clause, "thrown": propagated to the caller)
handleIncomingEvent(service, event, t) ==
    LET counted == [service EXCEPT !.eventCount = service.eventCount + 1]
    IN  IF createNotificationThrows(event)
        THEN [service |-> counted, error |-> "caught"]
        ELSE [service |-> [counted EXCEPT !.storage =
                              store(service.storage,
                                    buildNotificationEvent(event, service.agentPubkey, t))],
              error |-> "none"]

getNotifications(service, filters) == retrieve(service.storage, filters)

getStatus(service) ==
    [isActive |-> service.subscription # NoSubscription,
     agentPubkey |-> service.agentPubkey,
     eventCount |-> service.eventCount,
     startTime |-> service.startTime,
     storageSize |-> size(service.storage)]

\* the filter { "#p": [agentPubkey] } of the live query
MatchesFilter(event, agentPubkey) ==
    \E i \in 1..Len(event.tags) :
        Len(event.tags[i]) >= 2 /\ event.tags[i][1] = Str("p") /\ event.tags[i][2] = agentPubkey

\* ------------------------------------------------------ SubscriptionManager
\* identities monitored in EngineSpec
Agents == {W1, W2}
\* events the Event Source emits in EngineSpec
EngineEvents == {Ev1}

NoLastOp == [op |-> "none", pubkey |-> EMPTY, result |-> "none", again |-> FALSE]
Last(op, pubkey, result) ==
    [op |-> op, pubkey |-> pubkey, result |-> result, again |-> FALSE]
ReconnIdle == [pc |-> "idle", entries |-> <<>>, i |-> 0, newService |-> 0]
NoBefore == [keys |-> {}, counts |-> <<>>, stored |-> <<>>, quiet |-> FALSE]

\* the state of a freshly constructed SubscriptionManager
EngineFresh ==
    /\ services = <<>>
    /\ svc = <<>>
    /\ liveQueries = {}
    /\ pendingAdds = <<>>
    /\ reconn = ReconnIdle
    /\ deliveries = 0
    /\ lastOp = NoLastOp
    /\ removed = {}
    /\ atReconnect = NoBefore

InFlight == pendingAdds # <<>> \/ reconn.pc # "idle"
\* an operation other than handleReconnection ran since it started: the
\* snapshot no longer describes "immediately before the call"
Disturbed == NoBefore

\* A plausible slip: no duplicate check (a silent upsert).
AlreadyMonitoringNever(agentPubkey) == FALSE

\* this.services.has(agentPubkey)
AlreadyMonitoring(agentPubkey) == MapHas(services, agentPubkey)

\* service.stopMonitoring() applied to the heap and to the Event Source.
\* Both callers drop the stopped services from the map in the same step, so
\* nothing can read their counters and stores any more: the heap keeps only
\* that they are stopped.
StoppedHeap(heap, ids) ==
    [i \in 1..Len(heap) |->
        IF i \in ids
        THEN [NewService(heap[i].agentPubkey) EXCEPT !.subscription = NoSubscription]
        ELSE heap[i]]
StoppedQueries(heap, ids) ==
    liveQueries \ { heap[i].subscription : i \in ids }

\* A plausible slip: the service is registered before it is started, so a
\* failed start leaves its entry behind.
AddSubscriptionCallRegistersFirst(agentPubkey, subscribeFails) ==
    /\ UNCHANGED <<now, storeVars, toolVars>>
    /\ IF AlreadyMonitoring(agentPubkey)
       THEN /\ lastOp' = Last("addSubscription", agentPubkey, "duplicate")
            /\ UNCHANGED <<services, svc, liveQueries, pendingAdds, reconn, deliveries,
                           removed, atReconnect>>
       ELSE IF subscribeFails
       THEN LET id == Len(svc) + 1
            IN  /\ id <= MaxServices
                /\ svc' = Append(svc, NewService(agentPubkey))
                /\ services' = MapSet(services, agentPubkey, id)
                /\ lastOp' = Last("addSubscription", agentPubkey, "subscribeFailed")
                /\ atReconnect' = Disturbed
                /\ UNCHANGED <<liveQueries, pendingAdds, reconn, deliveries, removed>>
       ELSE LET id == Len(svc) + 1
            IN  /\ id <= MaxServices
                /\ Len(pendingAdds) < MaxPending
                /\ svc' = Append(svc, startMonitoring(NewService(agentPubkey), id, now))
                /\ liveQueries' = liveQueries \cup {id}
                /\ pendingAdds' = Append(pendingAdds,
                                         [pubkey |-> agentPubkey, service |-> id])
                /\ lastOp' = Last("addSubscription", agentPubkey, "awaiting")
                /\ removed' = removed \ {agentPubkey}
                /\ atReconnect' = Disturbed
                /\ UNCHANGED <<services, reconn, deliveries>>

\* addSubscription(agentPubkey) up to its await; subscribeFails: ndk.subscribe throws
AddSubscriptionCall(agentPubkey, subscribeFails) ==
    /\ UNCHANGED <<now, storeVars, toolVars>>
    /\ IF AlreadyMonitoring(agentPubkey)
       THEN /\ lastOp' = Last("addSubscription", agentPubkey, "duplicate")
            /\ UNCHANGED <<services, svc, liveQueries, pendingAdds, reconn, deliveries,
                           removed, atReconnect>>
       ELSE IF subscribeFails
       THEN /\ lastOp' = Last("addSubscription", agentPubkey, "subscribeFailed")
            /\ atReconnect' = Disturbed
            /\ UNCHANGED <<services, svc, liveQueries, pendingAdds, reconn, deliveries,
                           removed>>
       ELSE LET id == Len(svc) + 1
            IN  /\ id <= MaxServices
                /\ Len(pendingAdds) < MaxPending
                /\ svc' = Append(svc, startMonitoring(NewService(agentPubkey), id, now))
                /\ liveQueries' = liveQueries \cup {id}
                /\ pendingAdds' = Append(pendingAdds,
                                         [pubkey |-> agentPubkey, service |-> id])
                /\ lastOp' = Last("addSubscription", agentPubkey, "awaiting")
                /\ removed' = removed \ {agentPubkey}
                /\ atReconnect' = Disturbed
                /\ UNCHANGED <<services, reconn, deliveries>>

\* addSubscription after its await: this.services.set(agentPubkey, service)
AddSubscriptionResume ==
    /\ pendingAdds # <<>>
    /\ LET task == Head(pendingAdds)
       IN  /\ services' = MapSet(services, task.pubkey, task.service)
           /\ lastOp' = Last("addSubscriptionDone", task.pubkey, "ok")
           /\ removed' = removed \ {task.pubkey}
    /\ pendingAdds' = Tail(pendingAdds)
    /\ atReconnect' = Disturbed
    /\ UNCHANGED <<svc, liveQueries, reconn, deliveries>>
    /\ UNCHANGED <<now, storeVars, toolVars>>

\* A plausible slip: the service is stopped but stays in the map.
removeSubscriptionKeepEntry(agentPubkey) ==
    /\ IF MapHas(services, agentPubkey)
       THEN LET id == MapGet(services, agentPubkey)
            IN  /\ svc' = StoppedHeap(svc, {id})
                /\ liveQueries' = StoppedQueries(svc, {id})
                /\ services' = services
                /\ lastOp' = [Last("removeSubscription", agentPubkey, "true") EXCEPT
                                 !.again = lastOp.op = "removeSubscription"
                                           /\ lastOp.pubkey = agentPubkey]
                /\ removed' = IF InFlight THEN removed ELSE removed \cup {agentPubkey}
       ELSE /\ lastOp' = [Last("removeSubscription", agentPubkey, "false") EXCEPT
                             !.again = lastOp.op = "removeSubscription"
                                       /\ lastOp.pubkey = agentPubkey]
            /\ UNCHANGED <<services, svc, liveQueries, removed>>
    /\ atReconnect' = Disturbed
    /\ UNCHANGED <<pendingAdds, reconn, deliveries>>
    /\ UNCHANGED <<now, storeVars, toolVars>>

removeSubscription(agentPubkey) ==
    /\ IF MapHas(services, agentPubkey)
       THEN LET id == MapGet(services, agentPubkey)
            IN  /\ svc' = StoppedHeap(svc, {id})
                /\ liveQueries' = StoppedQueries(svc, {id})
                /\ services' = MapDelete(services, agentPubkey)
                /\ lastOp' = [Last("removeSubscription", agentPubkey, "true") EXCEPT
                                 !.again = lastOp.op = "removeSubscription"
                                           /\ lastOp.pubkey = agentPubkey]
                /\ removed' = IF InFlight THEN removed ELSE removed \cup {agentPubkey}
       ELSE /\ lastOp' = [Last("removeSubscription", agentPubkey, "false") EXCEPT
                             !.again = lastOp.op = "removeSubscription"
                                       /\ lastOp.pubkey = agentPubkey]
            /\ UNCHANGED <<services, svc, liveQueries, removed>>
    /\ atReconnect' = Disturbed
    /\ UNCHANGED <<pendingAdds, reconn, deliveries>>
    /\ UNCHANGED <<now, storeVars, toolVars>>

stopAll ==
    LET ids == SeqRange(MapValues(services))
    IN  /\ svc' = StoppedHeap(svc, ids)
        /\ liveQueries' = StoppedQueries(svc, ids)
        /\ services' = <<>>
        /\ lastOp' = Last("stopAll", EMPTY, IF InFlight THEN "inFlight" ELSE "quiet")
        /\ atReconnect' = Disturbed
        /\ UNCHANGED <<pendingAdds, reconn, deliveries, removed>>
        /\ UNCHANGED <<now, storeVars, toolVars>>

\* A plausible slip: the handler looks the service up among all services
\* ever constructed, so a removed identity still answers.
getNotificationsToolAnyService(srv, heap, agentPubkey) ==
    IF \E id \in 1..Len(heap) : heap[id].agentPubkey = agentPubkey
    THEN LET service == heap[CHOOSE id \in 1..Len(heap) :
                                 heap[id].agentPubkey = agentPubkey]
         IN  [success |-> TRUE,
              status |-> getStatus(service),
              notifications |-> getNotifications(service, NoFilters)]
    ELSE [success |-> FALSE,
          status |-> getStatus(NewService(agentPubkey)),
          notifications |-> <<>>]

\* the get_notifications handler called with only agentPubkey, against the
\* manager's map `srv` and the services `heap`: what its answer carries
\* (status and notifications are meaningful when success is TRUE)
getNotificationsTool(srv, heap, agentPubkey) ==
    IF ~MapHas(srv, agentPubkey)
    THEN [success |-> FALSE,
          status |-> getStatus(NewService(agentPubkey)),
          notifications |-> <<>>]
    ELSE LET service == heap[MapGet(srv, agentPubkey)]
         IN  [success |-> TRUE,
              status |-> getStatus(service),
              notifications |-> getNotifications(service, NoFilters)]

\* the Event Source emits `event` on the open live query q
Deliver(q, event) ==
    /\ q \in liveQueries
    /\ deliveries < MaxDeliveries
    /\ MatchesFilter(event, svc[q].agentPubkey)
    /\ svc' = [svc EXCEPT ![q] = handleIncomingEvent(svc[q], event, now).service]
    /\ deliveries' = deliveries + 1
    /\ lastOp' = Last("event", svc[q].agentPubkey, "handled")
    /\ atReconnect' = Disturbed
    /\ UNCHANGED <<services, liveQueries, pendingAdds, reconn, removed>>
    /\ UNCHANGED <<now, storeVars, toolVars>>

\* --------------------------------------------------------- get_conversation
\* tag[i] of a JavaScript array (0-based): undefined past its end
TagAt(tag, i) == IF Len(tag) > i THEN tag[i + 1] ELSE UNDEF
\* tags.filter(tag => tag[0] === "e")
ETagsOf(tags) == SelectSeq(tags, LAMBDA tag : TagAt(tag, 0) = Str("e"))
\* eTags.find(tag => tag[3] === marker), UNDEF when there is none
FindMarked(eTags, marker) ==
    IF \E i \in 1..Len(eTags) : TagAt(eTags[i], 3) = Str(marker)
    THEN eTags[CHOOSE i \in 1..Len(eTags) :
                   /\ TagAt(eTags[i], 3) = Str(marker)
                   /\ \A j \in 1..(i - 1) : TagAt(eTags[j], 3) # Str(marker)]
    ELSE UNDEF

\* null where an NDKEvent is expected
NullEvent == SourceEvent(UNDEF, UNDEF, 0, 0, UNDEF, <<>>, UNDEF, UNDEF)

\* ndk.fetchEvent(id) answered from the events `rel` of the Event Source
fetchEvent(rel, id) ==
    IF \E e \in rel : e.id = id THEN CHOOSE e \in rel : e.id = id ELSE NullEvent

\* ndk.fetchEvents({ kinds: [1], "#e": [rootEventId] })
fetchThreadEvents(rel, rootEventId) ==
    { e \in rel : /\ e.kind = 1
                  /\ \E i \in 1..Len(e.tags) :
                         /\ TagAt(e.tags[i], 0) = Str("e")
                         /\ TagAt(e.tags[i], 1) = rootEventId }

\* A plausible slip: an event without "e" tags has no root.
rootEventIdOfNoSelf(requestedEvent) ==
    LET eTags == ETagsOf(requestedEvent.tags)
        rootTag == FindMarked(eTags, "root")
    IN  IF Len(eTags) = 0 THEN UNDEF
        ELSE IF rootTag # UNDEF THEN TagAt(rootTag, 1)
        ELSE TagAt(eTags[1], 1)

\* A plausible slip: the markers are ignored, the first "e" tag is the root.
rootEventIdOfPositional(requestedEvent) ==
    LET eTags == ETagsOf(requestedEvent.tags)
    IN  IF Len(eTags) = 0 THEN requestedEvent.id
        ELSE TagAt(eTags[1], 1)

\* the root id determined from the requested event's tags
rootEventIdOf(requestedEvent) ==
    LET eTags == ETagsOf(requestedEvent.tags)
        rootTag == FindMarked(eTags, "root")
    IN  IF Len(eTags) = 0 THEN requestedEvent.id
        ELSE IF rootTag # UNDEF THEN TagAt(rootTag, 1)
        ELSE TagAt(eTags[1], 1)

\* A plausible slip: the first "e" tag is taken as the parent.
parentIdOfFirstTag(currentEvent) ==
    LET eTags == ETagsOf(currentEvent.tags)
        replyTag == FindMarked(eTags, "reply")
    IN  IF replyTag # UNDEF THEN TagAt(replyTag, 1)
        ELSE IF Len(eTags) >= 1 THEN TagAt(eTags[1], 1)
        ELSE UNDEF

\* the parent id determined during the walk (UNDEF stands for null)
parentIdOf(currentEvent) ==
    LET eTags == ETagsOf(currentEvent.tags)
        replyTag == FindMarked(eTags, "reply")
    IN  IF replyTag # UNDEF THEN TagAt(replyTag, 1)
        ELSE IF Len(eTags) = 1 THEN TagAt(eTags[1], 1)
        ELSE IF Len(eTags) >= 2 THEN TagAt(eTags[Len(eTags)], 1)
        ELSE UNDEF

\* eventMap: the root under rootEventId, then every candidate under its id.
\* Only lookups are made, so the map is modelled as a function.
buildEventMap(rootEventId, rootEvent, allThreadEvents) ==
    LET ids == {rootEventId} \cup { e.id : e \in allThreadEvents }
    IN  [id \in ids |->
            IF \E e \in allThreadEvents : e.id = id
            THEN CHOOSE e \in allThreadEvents : e.id = id
            ELSE rootEvent]

\* A plausible slip: the walk stops after the requested event.
conversationPathTargetOnly(eventMap, rootEventId, currentEvent, path) ==
    <<currentEvent>> \o path

\* the while loop of the walk, entered with currentEvent and the path so far
RECURSIVE conversationPath(_, _, _, _)
conversationPath(eventMap, rootEventId, currentEvent, path) ==
    LET unshifted == <<currentEvent>> \o path
        parentId == parentIdOf(currentEvent)
        parent == IF parentId # UNDEF /\ parentId # EMPTY /\ parentId \in DOMAIN eventMap
                  THEN eventMap[parentId]
                  ELSE NullEvent
    IN  IF currentEvent.id = rootEventId THEN unshifted
        ELSE IF parent = NullEvent THEN unshifted
        ELSE conversationPath(eventMap, rootEventId, parent, unshifted)

NoResult == [status |-> "none", error |-> EMPTY, path |-> <<>>]
Failed(message) == [status |-> "error", error |-> Str(message), path |-> <<>>]
ConvIdle == [pc |-> "idle", eventId |-> EMPTY, requestedEvent |-> NullEvent,
             rootEventId |-> UNDEF, rootEvent |-> NullEvent, eventMap |-> <<>>,
             result |-> NoResult]

\* --------------------------------------------------- conversationTracker
\* Arrays of events and of replies are sequences.  An answer of the Event
\* Source to a filter with kinds [1] lists the kind 1 events among those
\* that match the rest of the filter, in the order of `order`, at most
\* filterLimit of them.
fetchEvents(matching, order, filterLimit) ==
    LET found == SelectSeq(order, LAMBDA e : e \in matching /\ e.kind = 1)
    IN  SubSeq(found, 1, Min(Len(found), filterLimit))

\* the events that carry an "e" tag naming id: the filter { "#e": [id] }
TaggedWith(e, id) ==
    \E i \in 1..Len(e.tags) : TagAt(e.tags[i], 0) = Str("e") /\ TagAt(e.tags[i], 1) = id

\* the root test of the handler (index.ts 148-153)
isRoot(event) ==
    LET eTags == ETagsOf(event.tags)
    IN  \/ Len(eTags) = 0
        \/ \E i \in 1..Len(eTags) :
               TagAt(eTags[i], 3) = Str("root") /\ TagAt(eTags[i], 1) = event.id
        \/ ~\E i \in 1..Len(eTags) :
               TagAt(eTags[i], 3) \in {Str("reply"), Str("root")}

\* contentLower.includes(keyword.toLowerCase()) for some keyword; every
\* content and keyword of the model is one lower-case token
hasKeyword(event, keywords) ==
    \E k \in 1..Len(keywords) : \E i \in 1..Len(event.content) :
        event.content[i] = keywords[k]

\* A plausible slip: the loop over the fetched events has no break.
RECURSIVE collectRootsNoBreak(_, _, _, _, _)
collectRootsNoBreak(events, i, limit, keywords, rootEvents) ==
    IF i > Len(events) THEN rootEvents
    ELSE IF isRoot(events[i]) /\ (Len(keywords) > 0 => hasKeyword(events[i], keywords))
    THEN collectRootsNoBreak(events, i + 1, limit, keywords,
                             Append(rootEvents, events[i]))
    ELSE collectRootsNoBreak(events, i + 1, limit, keywords, rootEvents)

\* for (const event of events) { ... } of the handler (index.ts 147-169),
\* from event i on
RECURSIVE collectRoots(_, _, _, _, _)
collectRoots(events, i, limit, keywords, rootEvents) ==
    IF i > Len(events) THEN rootEvents
    ELSE IF isRoot(events[i]) /\ (Len(keywords) > 0 => hasKeyword(events[i], keywords))
    THEN LET pushed == Append(rootEvents, events[i])
         IN  IF Len(pushed) >= limit THEN pushed
             ELSE collectRoots(events, i + 1, limit, keywords, pushed)
    ELSE collectRoots(events, i + 1, limit, keywords, rootEvents)

\* the direct-reply test of fetchReplies (index.ts 259-262)
isDirectReply(replyEvent, parentId) ==
    LET eTags == ETagsOf(replyEvent.tags)
    IN  \/ \E i \in 1..Len(eTags) :
               /\ TagAt(eTags[i], 1) = parentId
               /\ TagAt(eTags[i], 3) \in {Str("reply"), UNDEF}
        \/ Len(eTags) = 1 /\ TagAt(eTags[1], 1) = parentId

\* fetchReplies(ndk, parentId, remainingDepth) (index.ts 241-286): the reply
\* tree, each reply with the replies nested under it
RECURSIVE fetchReplies(_, _, _, _)
fetchReplies(rel, order, parentId, remainingDepth) ==
    IF remainingDepth <= 0 THEN <<>>
    ELSE LET replyEvents == fetchEvents({ e \in rel : TaggedWith(e, parentId) },
                                        order, 100)
             direct == SelectSeq(replyEvents, LAMBDA e : isDirectReply(e, parentId))
         IN  [k \in 1..Len(direct) |->
                 [id |-> direct[k].id,
                  replies |-> IF remainingDepth > 1
                              THEN fetchReplies(rel, order, direct[k].id,
                                                remainingDepth - 1)
                              ELSE <<>>]]

\* the root test of the flat variant (part_006 343-344)
isRootFlat(event) ==
    LET eTags == ETagsOf(event.tags)
    IN  \/ Len(eTags) = 0
        \/ \E i \in 1..Len(eTags) : TagAt(eTags[i], 3) = Str("root")

\* the direct-reply test of the flat variant (part_006 435-438)
isDirectReplyFlat(reply, eventId) ==
    LET eTags == ETagsOf(reply.tags)
    IN  \E i \in 1..Len(eTags) :
            /\ TagAt(eTags[i], 1) = eventId
            /\ TagAt(eTags[i], 3) \in {Str("reply"), UNDEF}

\* fetchReplies(eventId, ndk, maxDepth, currentDepth) of the flat variant
\* (part_006 411-467): one list holding each direct reply followed by the
\* replies below it.  `level` is a history field: the depth below the root
\* at which the reply was fetched.  Every event of the model has the same
\* created_at, so the final sort by created_at keeps the order.
RECURSIVE fetchRepliesFlat(_, _, _, _, _)
RECURSIVE repliesFrom(_, _, _, _, _, _, _)
fetchRepliesFlat(rel, order, eventId, maxDepth, currentDepth) ==
    IF currentDepth >= maxDepth THEN <<>>
    ELSE LET replyEvents == fetchEvents({ e \in rel : TaggedWith(e, eventId) },
                                        order, 50)
             direct == SelectSeq(replyEvents, LAMBDA e : isDirectReplyFlat(e, eventId))
         IN  repliesFrom(rel, order, eventId, maxDepth, currentDepth, direct, 1)

\* the loop of the flat fetchReplies over the direct replies, from reply k on
repliesFrom(rel, order, eventId, maxDepth, currentDepth, direct, k) ==
    IF k > Len(direct) THEN <<>>
    ELSE << [id |-> direct[k].id, reply_to |-> eventId, level |-> currentDepth + 1] >>
         \o fetchRepliesFlat(rel, order, direct[k].id, maxDepth, currentDepth + 1)
         \o repliesFrom(rel, order, eventId, maxDepth, currentDepth, direct, k + 1)

\* ------------------------------------------------------- contentResolver
\* The reference markers that occur in the texts of ResolveSpec.  A marker is
\* one token of a string ("nostr:" followed by word characters), so that
\* matchAll(/nostr:(\w+)/g) is the selection of the marker tokens.
MU == "nostr:npub1u"
MV == "nostr:npub1bad"
MX == "nostr:note1x"
MY == "nostr:note1y"
MZ == "nostr:note1z"
Markers == {MU, MV, MX, MY, MZ}
\* entity.startsWith("npub") || entity.startsWith("nprofile")
IsUserReference(fullMatch) == fullMatch \in {MU, MV}
\* content.matchAll(nostrRegex): the markers of `content`, in order
matchAll(content) == SelectSeq(content, LAMBDA token : token \in Markers)

\* resolvedContent.replaceAll(original, replacement)
RECURSIVE replaceAll(_, _, _)
replaceAll(content, original, replacement) ==
    IF content = <<>> THEN <<>>
    ELSE (IF Head(content) = original THEN replacement ELSE <<Head(content)>>)
         \o replaceAll(Tail(content), original, replacement)

\* for (const [original, replacement] of replacements) ...replaceAll(...),
\* from entry i of the Map on
RECURSIVE applyReplacements(_, _, _)
applyReplacements(content, replacements, i) ==
    IF i > Len(replacements) THEN content
    ELSE applyReplacements(
             replaceAll(content, replacements[i].key, replacements[i].value),
             replacements, i + 1)

\* the lines "* <error>\n" of the debug block, from error i on
RECURSIVE debugLines(_, _)
debugLines(errors, i) ==
    IF i > Len(errors) THEN <<>>
    ELSE Str("* ") \o errors[i].error \o Str("\n") \o debugLines(errors, i + 1)

\* the value resolveNostrContent returns once its loop has ended
resolvedContentOf(frame) ==
    LET replaced == applyReplacements(frame.content, frame.replacements, 1)
    IN  IF Len(frame.errors) > 0 /\ frame.currentDepth = 0
        THEN replaced \o Str("\n\n<debug>\n") \o debugLines(frame.errors, 1)
             \o Str("</debug>")
        ELSE replaced

\* formatTimestamp(created_at): a locale string, kept as one token
formatTimestamp(created_at) == <<"time:", ToString(created_at)>>

\* the embedded-event block put in place of an event marker
embeddedContent(fullMatch, authorName, created_at, resolvedEventContent) ==
    Str("<embedded-event id=\"") \o <<fullMatch>> \o Str("\">") \o Str("\n")
    \o Str("**") \o authorName \o Str("** ") \o formatTimestamp(created_at) \o Str("\n")
    \o resolvedEventContent \o Str("\n")
    \o Str("</embedded-event>")

\* new NDKUser({ pubkey }).npub.slice(0, 12) + "..."
FallbackName(pubkey) == Str("npub1") \o pubkey \o Str("...")

\* A plausible slip: no depth guard.
AtDepthLimitNever(currentDepth, maxDepth) == FALSE

\* if (currentDepth >= maxDepth) return content
AtDepthLimit(currentDepth, maxDepth) == currentDepth >= maxDepth

\* the first match from i on that is not in `replacements` yet
\* (if (replacements.has(fullMatch)) continue), Len(matches) + 1 if none
NextUnprocessed(matches, replacements, i) ==
    IF \E j \in i..Len(matches) : ~MapHas(replacements, matches[j])
    THEN CHOOSE j \in i..Len(matches) :
             /\ ~MapHas(replacements, matches[j])
             /\ \A h \in i..(j - 1) : MapHas(replacements, matches[h])
    ELSE Len(matches) + 1

\* the activation record of resolveNostrContent(content, ndk, options) on
\* entry: it returns at once at the depth limit and when there is no marker
NewFrame(content, currentDepth, maxDepth) ==
    [content |-> content,
     currentDepth |-> currentDepth,
     matches |-> matchAll(content),
     i |-> 1,
     replacements |-> <<>>,
     profileCache |-> <<>>,
     errors |-> <<>>,
     awaiting |-> <<>>,
     pc |-> IF AtDepthLimit(currentDepth, maxDepth) THEN "guard"
            ELSE IF matchAll(content) = <<>> THEN "plain"
            ELSE "loop"]

\* the loop moves on to match i (skipping processed markers) or ends
Advance(frame, i) ==
    LET j == NextUnprocessed(frame.matches, frame.replacements, i)
    IN  [frame EXCEPT !.i = j, !.awaiting = <<>>,
                      !.pc = IF j > Len(frame.matches) THEN "apply" ELSE "loop"]

ResolutionError(fullMatch, error) == [entity |-> fullMatch, error |-> error]

NoStep == [fullMatch |-> "", fetch |-> "none", profile |-> "none"]
ResolveIdle == [pc |-> "idle", content |-> <<>>, maxDepth |-> 0, stack |-> <<>>,
                output |-> <<>>, errors |-> <<>>, replaced |-> {},
                raised |-> {},
                lastStep |-> NoStep,
                lastReturn |-> [pc |-> "none", currentDepth |-> 0,
                                content |-> <<>>, returned |-> <<>>]]

\* ----------------------------------------------------------- EventProcessor
\* optional chaining tag?.[i]
TagAtOpt(tag, i) == IF tag = UNDEF THEN UNDEF ELSE TagAt(tag, i)

\* A plausible slip: replyTo falls back on the first "e" tag.
enrichEventContextFirstTag(event) ==
    LET eTags == ETagsOf(event.tags)
        rootTag == FindMarked(eTags, "root")
        marked == FindMarked(eTags, "reply")
        replyTag == IF marked # UNDEF THEN marked
                    ELSE IF Len(eTags) > 0 THEN eTags[1]
                    ELSE UNDEF
    IN  [isReply |-> Len(eTags) > 0 /\ event.kind = 1,
         isReaction |-> event.kind = 7,
         isMention |-> \E i \in 1..Len(event.tags) : TagAt(event.tags[i], 0) = Str("p"),
         isRepost |-> event.kind = 6,
         threadRoot |-> TagAtOpt(rootTag, 1),
         replyTo |-> TagAtOpt(replyTag, 1)]

enrichEventContext(event) ==
    LET eTags == ETagsOf(event.tags)
        rootTag == FindMarked(eTags, "root")
        marked == FindMarked(eTags, "reply")
        replyTag == IF marked # UNDEF THEN marked
                    ELSE IF Len(eTags) > 0 THEN eTags[Len(eTags)]
                    ELSE UNDEF
    IN  [isReply |-> Len(eTags) > 0 /\ event.kind = 1,
         isReaction |-> event.kind = 7,
         isMention |-> \E i \in 1..Len(event.tags) : TagAt(event.tags[i], 0) = Str("p"),
         isRepost |-> event.kind = 6,
         threadRoot |-> TagAtOpt(rootTag, 1),
         replyTo |-> TagAtOpt(replyTag, 1)]

\* A plausible slip: the reply test comes before the mention test.
categorizeEventReplyFirst(event) ==
    LET context == enrichEventContext(event)
    IN  IF context.isReply THEN [category |-> "reply", priority |-> "high"]
        ELSE IF context.isMention /\ event.kind = 1
        THEN [category |-> "mention", priority |-> "high"]
        ELSE IF context.isReaction THEN [category |-> "reaction", priority |-> "medium"]
        ELSE IF context.isRepost THEN [category |-> "repost", priority |-> "medium"]
        ELSE [category |-> "other", priority |-> "low"]

categorizeEvent(event) ==
    LET context == enrichEventContext(event)
    IN  IF context.isMention /\ event.kind = 1
        THEN [category |-> "mention", priority |-> "high"]
        ELSE IF context.isReply THEN [category |-> "reply", priority |-> "high"]
        ELSE IF context.isReaction THEN [category |-> "reaction", priority |-> "medium"]
        ELSE IF context.isRepost THEN [category |-> "repost", priority |-> "medium"]
        ELSE [category |-> "other", priority |-> "low"]

NotClassified == [called |-> FALSE, event |-> NullEvent,
                  context |-> enrichEventContext(NullEvent),
                  result |-> [category |-> "none", priority |-> "none"]]

\* ----------------------------------------------- ResourceSubscriptionManager
\* A URI is a string whose tokens are the scheme with its colon, "//", the
\* host, and then the path with every "/" and "," a token of its own and
\* every character of a kinds entry a token of its own.
Schemes == {"nostr:", "http:"}

\* new URL(uri); valid = FALSE stands for the TypeError it throws
ParseUrl(uri) ==
    IF Len(uri) = 0 \/ uri[1] \notin Schemes
    THEN [valid |-> FALSE, protocol |-> "", hostname |-> EMPTY, pathname |-> EMPTY]
    ELSE IF Len(uri) >= 3 /\ uri[2] = "//" /\ uri[3] # "/"
    THEN [valid |-> TRUE, protocol |-> uri[1], hostname |-> Str(uri[3]),
          pathname |-> SubSeq(uri, 4, Len(uri))]
    ELSE IF Len(uri) >= 2 /\ uri[2] = "//"
    THEN [valid |-> TRUE, protocol |-> uri[1], hostname |-> EMPTY,
          pathname |-> SubSeq(uri, 3, Len(uri))]
    ELSE [valid |-> TRUE, protocol |-> uri[1], hostname |-> EMPTY,
          pathname |-> SubSeq(uri, 2, Len(uri))]

\* s.split(separator): the pieces between the separators, empty ones included
RECURSIVE split(_, _)
split(s, separator) ==
    IF \A i \in 1..Len(s) : s[i] # separator
    THEN <<s>>
    ELSE LET i == CHOOSE k \in 1..Len(s) :
                      s[k] = separator /\ \A j \in 1..(k - 1) : s[j] # separator
         IN  <<SubSeq(s, 1, i - 1)>> \o split(SubSeq(s, i + 1, Len(s)), separator)

\* parsedUri.pathname.split('/').filter(p => p)
pathPartsOf(pathname) == SelectSeq(split(pathname, "/"), LAMBDA part : part # EMPTY)

Digits == <<"0", "1", "2", "3", "4", "5", "6", "7", "8", "9">>
IsDigit(token) == \E d \in 1..Len(Digits) : Digits[d] = token
DigitValue(token) == (CHOOSE d \in 1..Len(Digits) : Digits[d] = token) - 1
RECURSIVE Decimal(_)
Decimal(digits) ==
    IF digits = <<>> THEN 0
    ELSE 10 * Decimal(SubSeq(digits, 1, Len(digits) - 1)) + DigitValue(digits[Len(digits)])
NaN == [nan |-> TRUE, value |-> 0]
\* parseInt(k, 10) on a string without sign or white space: the number
\* written by the longest prefix of digits, NaN when that prefix is empty
parseInt(k) ==
    LET n == CHOOSE m \in 0..Len(k) :
                 /\ \A i \in 1..m : IsDigit(k[i])
                 /\ m = Len(k) \/ ~IsDigit(k[m + 1])
    IN  IF n = 0 THEN NaN ELSE [nan |-> FALSE, value |-> Decimal(SubSeq(k, 1, n))]

\* kindsStr ? kindsStr.split(',').map(k => parseInt(k, 10)).filter(k => !isNaN(k))
\*          : undefined; <<>> stands for undefined as well as for the empty
\* array, which the caller treats alike
subscribeKinds(kindsStr) ==
    IF kindsStr = UNDEF \/ kindsStr = EMPTY THEN <<>>
    ELSE LET entries == split(kindsStr, ",")
             numbers == SelectSeq([i \in 1..Len(entries) |-> parseInt(entries[i])],
                                  LAMBDA n : ~n.nan)
         IN  [i \in 1..Len(numbers) |-> numbers[i].value]

\* parseKinds(kindsStr) of the feed resource: the kinds, or the error thrown
\* for the first entry that parseInt does not read
parseKinds(kindsStr) ==
    IF kindsStr = UNDEF \/ kindsStr = EMPTY
    THEN [thrown |-> FALSE, error |-> EMPTY, kinds |-> <<>>]
    ELSE LET entries == split(kindsStr, ",")
             bad == { i \in 1..Len(entries) : parseInt(entries[i]).nan }
         IN  IF bad # {}
             THEN [thrown |-> TRUE,
                   error |-> Str("Invalid kind: ")
                             \o entries[CHOOSE i \in bad : \A j \in bad : i <= j],
                   kinds |-> <<>>]
             ELSE [thrown |-> FALSE, error |-> EMPTY,
                   kinds |-> [i \in 1..Len(entries) |-> parseInt(entries[i]).value]]

\* an NDKFilter; an absent field is <<>>
Filter(authors, kinds, p) == [authors |-> authors, kinds |-> kinds, p |-> p]
\* createNostrFilter(pubkey, kinds)
createNostrFilter(pubkey, kinds) == Filter(<<pubkey>>, kinds, <<>>)
\* the events a live query with this filter receives
Matches(event, filter) ==
    /\ filter.authors # <<>> => event.pubkey \in SeqRange(filter.authors)
    /\ filter.kinds # <<>> => event.kind \in SeqRange(filter.kinds)
    /\ filter.p # <<>> =>
           \E i \in 1..Len(event.tags) :
               /\ TagAt(event.tags[i], 0) = Str("p")
               /\ TagAt(event.tags[i], 1) \in SeqRange(filter.p)

Thrown(message) ==
    [thrown |-> TRUE, error |-> message, branch |-> "", pathParts |-> <<>>]
Awaiting(branch, pathParts) ==
    [thrown |-> FALSE, error |-> "", branch |-> branch, pathParts |-> pathParts]

\* subscribe(uri, onUpdate) up to its first await or throw
subscribeStart(uri) ==
    LET parsedUri == ParseUrl(uri)
        host == parsedUri.hostname
        pathParts == pathPartsOf(parsedUri.pathname)
    IN  IF ~parsedUri.valid THEN Thrown("Invalid URL")
        ELSE IF parsedUri.protocol # "nostr:" THEN Thrown("Invalid nostr URI")
        ELSE IF host = Str("feed")
        THEN IF Len(pathParts) < 1 THEN Thrown("Invalid nostr feed URI format")
             ELSE Awaiting("feed", pathParts)
        ELSE IF host = Str("user") /\ Len(pathParts) > 0
                /\ pathParts[Len(pathParts)] = Str("notes")
        THEN IF Len(pathParts) < 2 THEN Thrown("Invalid nostr user notes URI format")
             ELSE Awaiting("notes", pathParts)
        ELSE IF host = Str("notifications")
        THEN IF Len(pathParts) < 1 THEN Thrown("Invalid nostr notifications URI format")
             ELSE Awaiting("notifications", pathParts)
        ELSE Thrown("Unsupported nostr resource URI")

\* the filter subscribe() builds once the identity is resolved to pubkey
subscribeFilter(start, pubkey) ==
    IF start.branch = "feed"
    THEN Filter(<<pubkey>>, subscribeKinds(TagAt(start.pathParts, 1)), <<>>)
    ELSE IF start.branch = "notes"
    THEN Filter(<<pubkey>>, <<1>>, <<>>)
    ELSE Filter(<<>>, <<>>, <<pubkey>>)

\* the identities of the resource URIs and the pubkey of the one that resolves
Alice == Str("alice")
Nobody == Str("nobody")
PkAlice == Str("pkA")
\* what await resolveUser(identity, ndk) gives: the user with its pubkey, or
\* the rejection for an identifier that is invalid or does not resolve
resolveUser(identity) ==
    IF identity = Alice
    THEN { [thrown |-> FALSE, pubkey |-> PkAlice] }
    ELSE { [thrown |-> TRUE, pubkey |-> EMPTY] }

Users == resolveUser(Alice) \cup resolveUser(Nobody)

\* A plausible slip: an event already passed to the callback is dropped.
onEventOnce(updates, uri, event) ==
    IF \E i \in 1..Len(updates) : updates[i] = [uri |-> uri, event |-> event]
    THEN updates
    ELSE Append(updates, [uri |-> uri, event |-> event])

\* the 'event' handler of a live query: onUpdate(uri, event); `updates` is the
\* list of the invocations of the callback
onEvent(updates, uri, event) == Append(updates, [uri |-> uri, event |-> event])

NoRequest == [op |-> "none", uri |-> EMPTY, response |-> "none", error |-> "",
              rejected |-> "", query |-> 0, event |-> NullEvent]
Request(op, uri, response, error) ==
    [op |-> op, uri |-> uri, response |-> response, error |-> error,
     rejected |-> "", query |-> 0, event |-> NullEvent]
NoPair == [stage |-> "none", uri |-> EMPTY, response |-> "none"]

\* the state of a freshly constructed ResourceSubscriptionManager
ResourceFresh ==
    [subscriptions |-> <<>>, queries |-> <<>>, pending |-> <<>>, updates |-> <<>>,
     reads |-> {}, last |-> NoRequest, pair |-> NoPair]

\* nothing has called the tools yet
\* no nostr_conversation_tracker call made yet
NotTracked == [called |-> FALSE, variant |-> "none", limit |-> 0, thread_depth |-> 0,
               keywords |-> <<>>, threads |-> <<>>]

\* MonitorSpec has not constructed its service
NotMonitoring == [service |-> NewService(EMPTY), delivered |-> <<>>, error |-> "none"]

ToolsFresh ==
    /\ relay = {}
    /\ relayChanges = 0
    /\ conv = ConvIdle
    /\ cls = NotClassified
    /\ rsv = ResolveIdle
    /\ qry = NoQuery
    /\ rsm = ResourceFresh
    /\ mon = NotMonitoring
    /\ trk = NotTracked

\* ---------------------------------------------------------------- StoreSpec
\* One NotificationStorage driven by arbitrary store() and clear() calls.
Notification(pk, t, tags) ==
    [pubkey |-> pk, created_at |-> t, kind |-> 1616, tags |-> tags, content |-> EMPTY]
K1 == Str("k1")
K2 == Str("k2")
K3 == Str("k3")
\* no "d" tag, a "d" tag with an empty value, and three discriminators
RawTags == { <<>>, << <<Str("d"), EMPTY>> >>,
             << <<Str("d"), K1>> >>, << <<Str("d"), K2>> >>, << <<Str("d"), K3>> >> }
\* every tag variant at time 0, and a second value for key k1
RawNotifications ==
    { Notification(W3, 0, tags) : tags \in RawTags }
        \cup { Notification(W3, 1, << <<Str("d"), K1>> >>) }
\* (source event, watched identity) pairs handed to the builder
BuildInputs == { <<Ev1, W1>>, <<Ev1, W2>>, <<Ev2, W1>> }

NoOp == [op |-> "none", key |-> EMPTY, value |-> Notification(EMPTY, 0, <<>>),
         event |-> UNDEF, agent |-> EMPTY, again |-> FALSE,
         author |-> EMPTY, sourceKind |-> -1]

Scenario == <<K1, K2, K3>>
ScenAfter(key) ==
    IF scen >= 0 /\ scen < Len(Scenario) /\ key = Scenario[scen + 1]
    THEN scen + 1 ELSE -1

AgeAfter(st) ==
    [k \in MapKeys(st.notifications) |->
        IF k \in DOMAIN age THEN age[k] ELSE calls + 1]

StoreInit ==
    /\ now = 0
    /\ \E n \in 0..MaxCapacity : storage = NewStorage(n)
    /\ calls = 0
    /\ scen = 0
    /\ age = <<>>
    /\ storeOp = NoOp
    /\ EngineFresh
    /\ ToolsFresh

\* storage.store(notification) with a caller-made notification
StoreCall(n) ==
    /\ calls < MaxStores
    /\ storage' = store(storage, n)
    /\ calls' = calls + 1
    /\ scen' = ScenAfter(generateKey(n))
    /\ age' = AgeAfter(storage')
    /\ storeOp' = [NoOp EXCEPT !.op = "store", !.key = generateKey(n), !.value = n]
    /\ UNCHANGED <<now, engineVars, toolVars>>

\* storage.store(buildNotificationEvent(e, w)), as handleIncomingEvent does
BuildAndStore(e, w) ==
    LET n == buildNotificationEvent(e, w, now)
    IN  /\ calls < MaxStores
        /\ storage' = store(storage, n)
        /\ calls' = calls + 1
        /\ scen' = ScenAfter(generateKey(n))
        /\ age' = AgeAfter(storage')
        /\ storeOp' = [op |-> "build", key |-> generateKey(n), value |-> n,
                       event |-> e.id, agent |-> w,
                       author |-> e.pubkey, sourceKind |-> e.kind,
                       again |-> /\ storeOp.op = "build"
                                 /\ storeOp.event = e.id
                                 /\ storeOp.agent = w]
        /\ UNCHANGED <<now, engineVars, toolVars>>

\* storage.clear()
ClearCall ==
    /\ storage' = clear(storage)
    /\ calls' = 0
    /\ scen' = -1
    /\ age' = <<>>
    /\ storeOp' = [NoOp EXCEPT !.op = "clear"]
    /\ UNCHANGED <<now, engineVars, toolVars>>

\* the wall clock advances
Tick ==
    /\ now < MaxTime
    /\ now' = now + 1
    /\ UNCHANGED <<storeVars, engineVars, toolVars>>

StoreNext ==
    \/ \E n \in RawNotifications : StoreCall(n)
    \/ \E b \in BuildInputs : BuildAndStore(b[1], b[2])
    \/ ClearCall
    \/ Tick

StoreSpec == StoreInit /\ [][StoreNext]_vars

\* ---------------------------------------------------------------- BuildSpec
\* The builder applied to one source event of every kind of the kind table
\* and of two kinds outside it, for three watched identities.
KnownKinds == {0, 1, 3, 4, 5, 6, 7, 40, 41, 42, 1984, 9735, 10002, 30023}
OtherKinds == {2, 30078}
KindEvent(k) == [Ev1 EXCEPT !.kind = k]

BuildInit ==
    /\ now = 0
    /\ storage = NewStorage(1)
    /\ calls = 0
    /\ scen = 0
    /\ age = <<>>
    /\ storeOp = NoOp
    /\ EngineFresh
    /\ ToolsFresh

BuildNext ==
    \/ \E k \in KnownKinds \cup OtherKinds : \E w \in Pubkeys :
           BuildAndStore(KindEvent(k), w)
    \/ Tick

BuildSpec == BuildInit /\ [][BuildNext]_vars

\* -------------------------------------------------------------- MonitorSpec
\* One NotificationService that is monitoring W1, and the events the Event
\* Source delivers to its live query, duplicates included.
Ev3 == SourceEvent(Str("e3"), Str("dave"), 0, 1, Str("hi"),
                   << <<Str("p"), W1>> >>, UNDEF, Str("Dave"))
\* an event with neither a pubkey nor an author profile
EvBad == SourceEvent(Str("e4"), UNDEF, 0, 1, Str("x"),
                     << <<Str("p"), W1>> >>, UNDEF, UNDEF)
MonitorEvents == {Ev1, Ev2, Ev3, EvBad}

\* new NotificationService(ndk, W1, n) followed by startMonitoring()
MonitorInit ==
    /\ now = 0
    /\ storage = NewStorage(0)
    /\ calls = 0
    /\ scen = -1
    /\ age = <<>>
    /\ storeOp = NoOp
    /\ EngineFresh
    /\ relay = {}
    /\ relayChanges = 0
    /\ conv = ConvIdle
    /\ cls = NotClassified
    /\ rsv = ResolveIdle
    /\ qry = NoQuery
    /\ rsm = ResourceFresh
    /\ trk = NotTracked
    /\ \E n \in 0..MaxCapacity :
           mon = [service |-> startMonitoring(
                                 [NewService(W1) EXCEPT !.storage = NewStorage(n)], 1, now),
                  delivered |-> <<>>,
                  error |-> "none"]

\* the Event Source emits `event` on the service's live query
MonitorDeliver(event) ==
    /\ isMonitoring(mon.service)
    /\ Len(mon.delivered) < MaxHandled
    /\ MatchesFilter(event, mon.service.agentPubkey)
    /\ LET handled == handleIncomingEvent(mon.service, event, now)
       IN  mon' = [service |-> handled.service,
                   delivered |-> Append(mon.delivered, event),
                   error |-> handled.error]
    /\ UNCHANGED notMonitor

MonitorNext == \E event \in MonitorEvents : MonitorDeliver(event)

MonitorSpec == MonitorInit /\ [][MonitorNext]_vars

\* --------------------------------------------------------------- RetrieveSpec
\* One NotificationStorage of capacity MaxCapacity filled by store() calls
\* and read by retrieve() with every combination of since, until and limit.
\* k1 is stored at time 0 and re-stored at time 1, so that the Map is not in
\* time order.
QueryNotifications ==
    { Notification(W3, 0, << <<Str("d"), K1>> >>),
      Notification(W3, 0, << <<Str("d"), K2>> >>),
      Notification(W3, 1, << <<Str("d"), K3>> >>),
      Notification(W3, 1, << <<Str("d"), K1>> >>) }
\* an absent field, or a value
TimeBounds == {<<>>} \cup { <<t>> : t \in 0..MaxTime }
Limits == {<<>>} \cup { <<l>> : l \in 0..MaxCapacity }
Filters == [since : TimeBounds, until : TimeBounds, limit : Limits]

RetrieveInit ==
    /\ now = 0
    /\ storage = NewStorage(MaxCapacity)
    /\ calls = 0
    /\ scen = 0
    /\ age = <<>>
    /\ storeOp = NoOp
    /\ EngineFresh
    /\ ToolsFresh

\* storage.retrieve(filters)
RetrieveCall(filters) ==
    /\ qry' = [called |-> TRUE, filters |-> filters,
               results |-> retrieve(storage, filters)]
    /\ UNCHANGED notQuery

RetrieveNext ==
    \/ \E n \in QueryNotifications : StoreCall(n)
    \/ \E filters \in Filters : RetrieveCall(filters)

RetrieveSpec == RetrieveInit /\ [][RetrieveNext]_vars

\* The loop of handleReconnection from entry i on, with `map` the services map
\* at this point: runs to the next await (after startMonitoring of a new
\* service), to the end of the loop, or to a throw of ndk.subscribe.
ReconnectionLoop(map, entries, i, subscribeFails) ==
    LET todo == { j \in i..Len(entries) : isMonitoring(svc[entries[j].value]) }
    IN  IF todo = {}
        THEN /\ services' = map
             /\ reconn' = ReconnIdle
             /\ lastOp' = Last("handleReconnectionDone", EMPTY, "ok")
             /\ UNCHANGED <<svc, liveQueries>>
        ELSE IF subscribeFails
        THEN /\ services' = map
             /\ reconn' = ReconnIdle
             /\ lastOp' = Last("handleReconnectionDone", EMPTY, "subscribeFailed")
             /\ UNCHANGED <<svc, liveQueries>>
        ELSE LET j == CHOOSE k \in todo : \A h \in todo : k <= h
                 id == Len(svc) + 1
             IN  /\ id <= MaxServices
                 /\ services' = map
                 /\ svc' = Append(svc, startMonitoring(NewService(entries[j].key), id, now))
                 /\ liveQueries' = liveQueries \cup {id}
                 /\ reconn' = [pc |-> "awaiting", entries |-> entries, i |-> j,
                               newService |-> id]
                 /\ lastOp' = Last("handleReconnection", EMPTY, "awaiting")

\* handleReconnection() up to its first await
handleReconnectionCall(subscribeFails) ==
    /\ reconn.pc = "idle"
    /\ atReconnect' =
           [keys |-> MapKeys(services),
            counts |-> [p \in MapKeys(services) |-> svc[MapGet(services, p)].eventCount],
            stored |-> [p \in MapKeys(services) |->
                           SeqRange(getNotifications(svc[MapGet(services, p)], NoFilters))],
            quiet |-> ~InFlight]
    /\ ReconnectionLoop(<<>>, services, 1, subscribeFails)
    /\ UNCHANGED <<pendingAdds, deliveries, removed>>
    /\ UNCHANGED <<now, storeVars, toolVars>>

\* handleReconnection() after an await: this.services.set(pubkey, newService)
\* and the next round of the loop
handleReconnectionResume(subscribeFails) ==
    /\ reconn.pc = "awaiting"
    /\ ReconnectionLoop(MapSet(services, reconn.entries[reconn.i].key, reconn.newService),
                        reconn.entries, reconn.i + 1, subscribeFails)
    /\ UNCHANGED <<pendingAdds, deliveries, removed, atReconnect>>
    /\ UNCHANGED <<now, storeVars, toolVars>>

\* ---------------------------------------------------------------- EngineSpec
\* One SubscriptionManager driven by its callers and by the Event Source.
EngineInit ==
    /\ now = 0
    /\ storage = NewStorage(0)
    /\ calls = 0
    /\ scen = -1
    /\ age = <<>>
    /\ storeOp = NoOp
    /\ EngineFresh
    /\ ToolsFresh

EngineNext ==
    \/ \E p \in Agents, f \in BOOLEAN : AddSubscriptionCall(p, f)
    \/ AddSubscriptionResume
    \/ \E p \in Agents : removeSubscription(p)
    \/ stopAll
    \/ \E f \in BOOLEAN : handleReconnectionCall(f)
    \/ \E f \in BOOLEAN : handleReconnectionResume(f)
    \/ \E q \in 1..MaxServices, e \in EngineEvents : Deliver(q, e)
    \/ Tick

EngineSpec == EngineInit /\ [][EngineNext]_vars

\* ---------------------------------------------------------------- ThreadSpec
\* The get_conversation handler against an Event Source holding any subset of
\* a small universe of events.  Event ids are content hashes, so no event
\* refers to itself or to one of its descendants.
Note(id, kind, tags) ==
    SourceEvent(Str(id), Str("author"), 1, kind, Str("text"), tags, UNDEF, UNDEF)
ETag(id) == <<Str("e"), Str(id)>>
Marked(id, marker) == <<Str("e"), Str(id), EMPTY, Str(marker)>>
\* a root, a legacy chain r <- a <- b, two marked replies c and d to r,
\* a marked chain c <- e <- f (e also carries a "p" tag, f names its reply
\* tag before its root tag), a reaction l to c,
\* a marked reply x to the reaction l, and a note p with no "e" tag
TR == Note("r", 1, <<>>)
TA == Note("a", 1, << ETag("r") >>)
TB == Note("b", 1, << ETag("r"), ETag("a") >>)
TC == Note("c", 1, << Marked("r", "reply") >>)
TD == Note("d", 1, << Marked("r", "reply") >>)
TE == Note("e", 1, << <<Str("p"), Str("author")>>, Marked("r", "root"), Marked("c", "reply") >>)
TL == Note("l", 7, << ETag("c") >>)
TF == Note("f", 1, << Marked("e", "reply"), Marked("r", "root") >>)
TX == Note("x", 1, << Marked("r", "root"), Marked("l", "reply") >>)
TP == Note("p", 1, << <<Str("p"), Str("e")>>, <<Str("t"), Str("e"), EMPTY, Str("root")>> >>)
ThreadEvents == {TR, TA, TB, TC, TD, TE, TF, TL, TX, TP}
\* the eventId arguments: every id of the universe and the empty string
EventIds == { e.id : e \in ThreadEvents } \cup {EMPTY}

ThreadInit ==
    /\ now = 0
    /\ storage = NewStorage(0)
    /\ calls = 0
    /\ scen = -1
    /\ age = <<>>
    /\ storeOp = NoOp
    /\ EngineFresh
    /\ relay \in SUBSET ThreadEvents
    /\ relayChanges = 0
    /\ conv = ConvIdle
    /\ cls = NotClassified
    /\ rsv = ResolveIdle
    /\ qry = NoQuery
    /\ rsm = ResourceFresh
    /\ mon = NotMonitoring
    /\ trk = NotTracked

\* handler(args) up to the fetch of the root event
GetConversationCall(eventId) ==
    /\ conv.pc \in {"idle", "done"}
    /\ relayChanges' = 0
    /\ LET requestedEvent == fetchEvent(relay, eventId)
           rootEventId == rootEventIdOf(requestedEvent)
           called == [ConvIdle EXCEPT !.eventId = eventId]
       IN  conv' =
             IF eventId = EMPTY
             THEN [called EXCEPT !.pc = "done", !.result = Failed("eventId is required")]
             ELSE IF requestedEvent = NullEvent
             THEN [called EXCEPT !.pc = "done", !.result = Failed("Event not found")]
             ELSE IF rootEventId = requestedEvent.id
             THEN [called EXCEPT !.pc = "fetchThread",
                                 !.requestedEvent = requestedEvent,
                                 !.rootEventId = rootEventId,
                                 !.rootEvent = requestedEvent]
             ELSE [called EXCEPT !.pc = "fetchRoot",
                                 !.requestedEvent = requestedEvent,
                                 !.rootEventId = rootEventId]
    /\ UNCHANGED <<notThread, relay>>

\* A plausible slip: a missing root is replaced by the requested event.
FetchRootResumeLenient ==
    /\ conv.pc = "fetchRoot"
    /\ LET rootEvent == fetchEvent(relay, conv.rootEventId)
       IN  conv' =
             IF rootEvent = NullEvent
             THEN [conv EXCEPT !.pc = "fetchThread", !.rootEvent = conv.requestedEvent]
             ELSE [conv EXCEPT !.pc = "fetchThread", !.rootEvent = rootEvent]
    /\ UNCHANGED <<notThread, relay, relayChanges>>

\* the handler after await ndk.fetchEvent(rootEventId)
FetchRootResume ==
    /\ conv.pc = "fetchRoot"
    /\ LET rootEvent == fetchEvent(relay, conv.rootEventId)
       IN  conv' =
             IF rootEvent = NullEvent
             THEN [conv EXCEPT !.pc = "done", !.result = Failed("Root event not found")]
             ELSE [conv EXCEPT !.pc = "fetchThread", !.rootEvent = rootEvent]
    /\ UNCHANGED <<notThread, relay, relayChanges>>

\* A plausible slip: a walk that does not reach the root is an error.
FetchThreadResumeStrict ==
    /\ conv.pc = "fetchThread"
    /\ LET allThreadEvents == fetchThreadEvents(relay, conv.rootEventId)
           eventMap == buildEventMap(conv.rootEventId, conv.rootEvent, allThreadEvents)
           path == conversationPath(eventMap, conv.rootEventId, conv.requestedEvent, <<>>)
       IN  conv' = [conv EXCEPT !.pc = "done", !.eventMap = eventMap,
                                !.result = IF path[1].id = conv.rootEventId
                                           THEN [status |-> "ok", error |-> EMPTY,
                                                 path |-> path]
                                           ELSE Failed("Parent event not found")]
    /\ UNCHANGED <<notThread, relay, relayChanges>>

\* the handler after await ndk.fetchEvents(threadFilter): the lookup table
\* and the walk from the requested event
FetchThreadResume ==
    /\ conv.pc = "fetchThread"
    /\ LET allThreadEvents == fetchThreadEvents(relay, conv.rootEventId)
           eventMap == buildEventMap(conv.rootEventId, conv.rootEvent, allThreadEvents)
           path == conversationPath(eventMap, conv.rootEventId, conv.requestedEvent, <<>>)
       IN  conv' = [conv EXCEPT !.pc = "done", !.eventMap = eventMap,
                                !.result = [status |-> "ok", error |-> EMPTY,
                                            path |-> path]]
    /\ UNCHANGED <<notThread, relay, relayChanges>>

\* the Event Source gains or loses an event while the handler is suspended
RelayChange(e) ==
    /\ conv.pc \in {"fetchRoot", "fetchThread"}
    /\ relayChanges < MaxRelayChanges
    /\ relayChanges' = relayChanges + 1
    /\ relay' = IF e \in relay THEN relay \ {e} ELSE relay \cup {e}
    /\ UNCHANGED <<notThread, conv>>

ThreadNext ==
    \/ \E id \in EventIds : GetConversationCall(id)
    \/ FetchRootResume
    \/ FetchThreadResume
    \/ \E e \in ThreadEvents : RelayChange(e)

ThreadSpec == ThreadInit /\ [][ThreadNext]_vars

\* ---------------------------------------------------------------- TrackSpec
\* The nostr_conversation_tracker handler, in its two variants, against an
\* Event Source holding any subset of a small universe: two roots, a chain
\* r1 <- a <- b of marked replies (each also carries a root marker), a legacy
\* reply g to r1, and x and y that name each other as parent (x also names
\* r2).
KR1 == Note("r1", 1, <<>>)
KR2 == Note("r2", 1, <<>>)
KA == Note("a", 1, << Marked("r1", "root"), Marked("r1", "reply") >>)
KB == Note("b", 1, << Marked("r1", "root"), Marked("a", "reply") >>)
KG == Note("g", 1, << ETag("r1") >>)
KX == Note("x", 1, << Marked("r2", "reply"), Marked("y", "reply") >>)
KY == Note("y", 1, << Marked("x", "reply") >>)
TrackOrder == <<KR1, KG, KR2, KA, KB, KX, KY>>
TrackEvents == SeqRange(TrackOrder)
\* the keywords of the query: one that every content holds, one that no
\* content holds
TrackKeywords == { <<"text">>, <<"zzz">> }

TrackInit ==
    /\ now = 0
    /\ storage = NewStorage(0)
    /\ calls = 0
    /\ scen = -1
    /\ age = <<>>
    /\ storeOp = NoOp
    /\ EngineFresh
    /\ relay \in SUBSET TrackEvents
    /\ relayChanges = 0
    /\ conv = ConvIdle
    /\ cls = NotClassified
    /\ rsv = ResolveIdle
    /\ qry = NoQuery
    /\ rsm = ResourceFresh
    /\ mon = NotMonitoring
    /\ trk = NotTracked

\* conversationTracker.handler (index.ts 98-238) for a query without
\* hashtags, since or until; the Event Source answers with at most the
\* filter's limit of events
TrackCall(limit, thread_depth, keywords) ==
    /\ LET events == fetchEvents(relay, TrackOrder, limit * 2)
           rootEvents == collectRoots(events, 1, limit, keywords, <<>>)
       IN  trk' = [called |-> TRUE, variant |-> "tree", limit |-> limit,
                   thread_depth |-> thread_depth, keywords |-> keywords,
                   threads |->
                       [k \in 1..Len(rootEvents) |->
                           [root_event |-> rootEvents[k].id,
                            replies |-> IF thread_depth > 0
                                        THEN fetchReplies(relay, TrackOrder,
                                                          rootEvents[k].id, thread_depth)
                                        ELSE <<>>]]]
    /\ UNCHANGED <<notTrack, relay, relayChanges>>

\* conversationTrackerTool.handler of the flat variant (part_006 310-408)
TrackFlatCall(limit, thread_depth, keywords) ==
    /\ LET events == fetchEvents(relay, TrackOrder, limit * 2)
           roots == SelectSeq(events, LAMBDA e :
                        isRootFlat(e) /\ (Len(keywords) > 0 => hasKeyword(e, keywords)))
           rootEvents == SubSeq(roots, 1, Min(Len(roots), limit))
       IN  trk' = [called |-> TRUE, variant |-> "flat", limit |-> limit,
                   thread_depth |-> thread_depth, keywords |-> keywords,
                   threads |->
                       [k \in 1..Len(rootEvents) |->
                           [root_event |-> rootEvents[k].id,
                            replies |-> fetchRepliesFlat(relay, TrackOrder,
                                                         rootEvents[k].id,
                                                         thread_depth, 0)]]]
    /\ UNCHANGED <<notTrack, relay, relayChanges>>

TrackNext ==
    \/ \E limit \in 0..MaxLimit, thread_depth \in 0..MaxThreadDepth :
       \E keywords \in TrackKeywords : TrackCall(limit, thread_depth, keywords)
    \/ \E limit \in 0..MaxLimit, thread_depth \in 0..MaxThreadDepth :
       \E keywords \in TrackKeywords : TrackFlatCall(limit, thread_depth, keywords)

TrackSpec == TrackInit /\ [][TrackNext]_vars

\* ----------------------------------------------------------------- WalkSpec
\* The path walk of the get_conversation handler (the while loop), one
\* iteration per step, on candidate sets as an Event Source that does not
\* check event ids can return them: a and b name each other as parent, s
\* names itself, c and d form a chain to the root.
WR == Note("r", 1, <<>>)
WA == Note("a", 1, << Marked("r", "root"), Marked("b", "reply") >>)
WB == Note("b", 1, << Marked("r", "root"), Marked("a", "reply") >>)
WS == Note("s", 1, << Marked("r", "root"), Marked("s", "reply") >>)
WC == Note("c", 1, << ETag("r") >>)
WD == Note("d", 1, << Marked("r", "root"), Marked("c", "reply") >>)
WalkCandidates == {WA, WB, WS, WC, WD}

\* the handler at line 89: the root and the candidates are fetched, the map
\* is built, the walk starts at the requested event
WalkInit ==
    /\ now = 0
    /\ storage = NewStorage(0)
    /\ calls = 0
    /\ scen = -1
    /\ age = <<>>
    /\ storeOp = NoOp
    /\ EngineFresh
    /\ relay = {}
    /\ relayChanges = 0
    /\ cls = NotClassified
    /\ rsv = ResolveIdle
    /\ qry = NoQuery
    /\ rsm = ResourceFresh
    /\ mon = NotMonitoring
    /\ trk = NotTracked
    /\ \E allThreadEvents \in SUBSET WalkCandidates :
       \E requestedEvent \in WalkCandidates \cup {WR} :
           conv = [pc |-> "walk",
                   rootEventId |-> WR.id,
                   eventMap |-> buildEventMap(WR.id, WR, allThreadEvents),
                   requestedEvent |-> requestedEvent,
                   currentEvent |-> requestedEvent,
                   conversationPath |-> <<>>]

\* one iteration of while (currentEvent) { ... } (lines 92-116)
WalkStep ==
    /\ conv.pc = "walk"
    /\ Len(conv.conversationPath) < MaxWalk
    /\ LET currentEvent == conv.currentEvent
           unshifted == <<currentEvent>> \o conv.conversationPath
           parentId == parentIdOf(currentEvent)
           parent == IF parentId # UNDEF /\ parentId # EMPTY
                        /\ parentId \in DOMAIN conv.eventMap
                     THEN conv.eventMap[parentId]
                     ELSE NullEvent
       IN  conv' =
             IF currentEvent.id = conv.rootEventId \/ parent = NullEvent
             THEN [conv EXCEPT !.conversationPath = unshifted, !.pc = "done"]
             ELSE [conv EXCEPT !.conversationPath = unshifted,
                               !.currentEvent = parent]
    /\ UNCHANGED <<notThread, relay, relayChanges>>

WalkNext == WalkStep

WalkSpec == WalkInit /\ [][WalkNext]_vars

\* --------------------------------------------------------------- ResolveSpec
\* One resolveNostrContent call at a time, with every lookup answered by the
\* Event Source in each of the ways it can be answered.  X and Y embed each
\* other; no event is ever found for MZ; MV is a malformed identity.
ResolveEvents ==
    [m \in {MX, MY} |->
        IF m = MX
        THEN [pubkey |-> Str("u"), created_at |-> 1, content |-> <<"see ", MY>>]
        ELSE [pubkey |-> Str("w"), created_at |-> 2, content |-> <<"back ", MX, " ", MU>>]]
ResolveTexts == { <<"plain text">>,
                  <<"hi ", MU>>,
                  <<MX>>,
                  <<MX, " ", MY>>,
                  <<MZ, " and ", MU, " ", MZ>>,
                  <<MV, " ", MU, " ", MU>> }
\* fetchUserProfile: a profile with a name, no usable profile (or a lookup
\* error, which it swallows), or the timeout it rethrows
ProfileOutcomes == {"named", "fallback", "timeout"}
\* withTimeout(ndk.fetchEvent(fullMatch)): an event, null, the timeout, or
\* another error
FetchOutcomes == {"found", "null", "timeout", "error"}
ProfileName(pubkey) == Str("name of ") \o pubkey
\* new NDKUser({ npub }).pubkey: UNDEF stands for a decoding error
PubkeyOf(fullMatch) == IF fullMatch = MU THEN Str("u") ELSE UNDEF

ResolveInit ==
    /\ now = 0
    /\ storage = NewStorage(0)
    /\ calls = 0
    /\ scen = -1
    /\ age = <<>>
    /\ storeOp = NoOp
    /\ EngineFresh
    /\ ToolsFresh

Top == rsv.stack[Len(rsv.stack)]
WithTop(frame) == [rsv.stack EXCEPT ![Len(rsv.stack)] = frame]
InLoop == rsv.pc = "running" /\ Top.pc = "loop"

\* errors.push({ entity: fullMatch, error }) and on to the next match
SoftError(fullMatch, message) ==
    [rsv EXCEPT !.stack = WithTop(Advance(
        [Top EXCEPT !.errors = Append(@, ResolutionError(fullMatch,
                                                         Str(message) \o <<fullMatch>>))],
        Top.i + 1))]

\* A plausible slip: the catch rethrows what is not a timeout.
catchErrorRethrow(fullMatch, message) ==
    IF message = "Error resolving "
    THEN [rsv EXCEPT !.pc = "thrown", !.stack = <<>>]
    ELSE SoftError(fullMatch, message)

\* the catch around one round of the loop (lines 197-211)
catchError(fullMatch, message) == SoftError(fullMatch, message)

\* resolveNostrContent(content, ndk, { maxDepth }) is called
ResolveCall(content, maxDepth) ==
    /\ rsv.pc \in {"idle", "done"}
    /\ rsv' = [ResolveIdle EXCEPT !.pc = "running", !.content = content,
                                  !.maxDepth = maxDepth,
                                  !.stack = <<NewFrame(content, 0, maxDepth)>>]
    /\ UNCHANGED notResolve

\* one round of the loop on a user reference (lines 99-141)
ProcessUserReference(profile) ==
    /\ InLoop
    /\ IsUserReference(Top.matches[Top.i])
    /\ LET frame == Top
           fullMatch == frame.matches[frame.i]
           pubkey == PubkeyOf(fullMatch)
           cached == pubkey # UNDEF /\ MapHas(frame.profileCache, pubkey)
           name == IF cached THEN MapGet(frame.profileCache, pubkey)
                   ELSE IF profile = "named" THEN ProfileName(pubkey)
                   ELSE FallbackName(pubkey)
           replaced ==
               [frame EXCEPT
                   !.profileCache = MapSet(@, pubkey, name),
                   !.replacements = MapSet(@, fullMatch, Str("@") \o name)]
           after ==
               IF pubkey = UNDEF
               THEN catchError(fullMatch, "Error resolving ")
               ELSE IF ~cached /\ profile = "timeout"
               THEN SoftError(fullMatch, "Timeout resolving profile for ")
               ELSE [rsv EXCEPT !.stack = WithTop(Advance(replaced, frame.i + 1))]
       IN  rsv' = [after EXCEPT
                      !.lastStep = [fullMatch |-> fullMatch, fetch |-> "none",
                                    profile |-> IF pubkey = UNDEF THEN "decodeError"
                                                ELSE IF cached THEN "cached"
                                                ELSE profile]]
    /\ UNCHANGED notResolve

\* one round of the loop on an event reference, up to the recursive call
\* (lines 143-177) or to the end of the round when no event was fetched
ProcessEventReference(fetch, profile) ==
    /\ InLoop
    /\ ~IsUserReference(Top.matches[Top.i])
    /\ fetch = "found" => Top.matches[Top.i] \in DOMAIN ResolveEvents
    /\ LET frame == Top
           fullMatch == frame.matches[frame.i]
           event == ResolveEvents[fullMatch]
           cached == MapHas(frame.profileCache, event.pubkey)
           name == IF cached THEN MapGet(frame.profileCache, event.pubkey)
                   ELSE IF profile = "named" THEN ProfileName(event.pubkey)
                   ELSE FallbackName(event.pubkey)
           fetched ==
               [frame EXCEPT
                   !.profileCache = IF cached \/ profile = "timeout" THEN @
                                    ELSE MapSet(@, event.pubkey, name),
                   !.errors = IF ~cached /\ profile = "timeout"
                              THEN Append(@, ResolutionError(fullMatch,
                                       Str("Timeout resolving author profile for embedded event")))
                              ELSE @,
                   !.awaiting = << [fullMatch |-> fullMatch, name |-> name,
                                    created_at |-> event.created_at] >>,
                   !.pc = "awaiting"]
           step == [fullMatch |-> fullMatch, fetch |-> fetch,
                    profile |-> IF fetch # "found" THEN "none"
                                ELSE IF cached THEN "cached" ELSE profile]
       IN  CASE fetch = "timeout" ->
                 rsv' = [catchError(fullMatch, "Timeout fetching event ")
                            EXCEPT !.lastStep = step]
             [] fetch = "error" ->
                 rsv' = [catchError(fullMatch, "Error resolving ")
                            EXCEPT !.lastStep = step]
             [] fetch = "null" ->
                 rsv' = [SoftError(fullMatch, "Could not fetch event ")
                            EXCEPT !.lastStep = step]
             [] fetch = "found" ->
                 /\ Len(rsv.stack) <= MaxDepth + 1
                 /\ rsv' = [rsv EXCEPT !.lastStep = step,
                               !.stack = Append(WithTop(fetched),
                                   NewFrame(event.content, frame.currentDepth + 1,
                                            rsv.maxDepth))]
    /\ UNCHANGED notResolve

\* the innermost call returns: at the depth guard, for want of markers, or
\* after its loop with the replacements applied; its caller wraps the value
\* in the embedded-event block and goes on with its loop
ReturnFromCall ==
    /\ rsv.pc = "running"
    /\ Top.pc \in {"guard", "plain", "apply"}
    /\ LET frame == Top
           returned == IF frame.pc = "apply" THEN resolvedContentOf(frame)
                       ELSE frame.content
           record == [pc |-> frame.pc, currentDepth |-> frame.currentDepth,
                      content |-> frame.content, returned |-> returned]
           caller == rsv.stack[Len(rsv.stack) - 1]
           resumed ==
               Advance([caller EXCEPT !.replacements =
                           MapSet(@, caller.awaiting[1].fullMatch,
                                  embeddedContent(caller.awaiting[1].fullMatch,
                                                  caller.awaiting[1].name,
                                                  caller.awaiting[1].created_at,
                                                  returned))],
                       caller.i + 1)
       IN  IF Len(rsv.stack) = 1
           THEN rsv' = [rsv EXCEPT !.pc = "done", !.stack = <<>>,
                                   !.output = returned, !.errors = frame.errors,
                                   !.replaced = MapKeys(frame.replacements),
                                   !.raised = @ \cup { frame.errors[k].entity :
                                                           k \in 1..Len(frame.errors) },
                                   !.lastStep = NoStep, !.lastReturn = record]
           ELSE rsv' = [rsv EXCEPT
                           !.stack = [SubSeq(rsv.stack, 1, Len(rsv.stack) - 1)
                                         EXCEPT ![Len(rsv.stack) - 1] = resumed],
                           !.raised = @ \cup { frame.errors[k].entity :
                                                           k \in 1..Len(frame.errors) },
                           !.lastStep = NoStep, !.lastReturn = record]
    /\ UNCHANGED notResolve

ResolveStep ==
    \/ \E profile \in ProfileOutcomes : ProcessUserReference(profile)
    \/ \E fetch \in FetchOutcomes, profile \in ProfileOutcomes :
           ProcessEventReference(fetch, profile)
    \/ ReturnFromCall

ResolveNext ==
    \/ \E content \in ResolveTexts, maxDepth \in 0..MaxDepth : ResolveCall(content, maxDepth)
    \/ ResolveStep

\* Every lookup settles (by its timeout at the latest) and every continuation
\* is run by the event loop.
ResolveSpec == ResolveInit /\ [][ResolveNext]_vars /\ WF_vars(ResolveStep)

\* -------------------------------------------------------------- ClassifySpec
\* EventProcessor.categorizeEvent applied to events of every kind of
\* ClassifyKinds with every list of at most MaxTags tags of ClassifyTags.
ClassifyKinds == {0, 1, 6, 7, 42}
ClassifyTags == { <<Str("p"), W3>>, <<Str("p")>>, ETag("r"), ETag("b"),
                  Marked("r", "root"), Marked("a", "reply"), <<Str("t"), Str("e")>> }
TagLists == UNION { [1..n -> ClassifyTags] : n \in 0..MaxTags }

ClassifyInit ==
    /\ now = 0
    /\ storage = NewStorage(0)
    /\ calls = 0
    /\ scen = -1
    /\ age = <<>>
    /\ storeOp = NoOp
    /\ EngineFresh
    /\ ToolsFresh

\* EventProcessor.categorizeEvent(event)
CategorizeCall(kind, tags) ==
    LET event == SourceEvent(Str("ev"), Str("author"), 1, kind, Str("text"), tags,
                             UNDEF, UNDEF)
    IN  /\ cls' = [called |-> TRUE, event |-> event,
                   context |-> enrichEventContext(event),
                   result |-> categorizeEvent(event)]
        /\ UNCHANGED notClassify

ClassifyNext == \E kind \in ClassifyKinds, tags \in TagLists : CategorizeCall(kind, tags)

ClassifySpec == ClassifyInit /\ [][ClassifyNext]_vars

\* -------------------------------------------------------------- ResourceSpec
\* The resources/subscribe and resources/unsubscribe handlers, stopAll() and
\* the Event Source, on one ResourceSubscriptionManager.
FeedUri(identity, kindsStr) ==
    <<"nostr:", "//", "feed", "/">> \o identity
        \o (IF kindsStr = EMPTY THEN <<>> ELSE <<"/">> \o kindsStr)
\* nostr://feed/alice/1,7 and nostr://notifications/alice
UFeed == FeedUri(Alice, <<"1", ",", "7">>)
UNotifications == <<"nostr:", "//", "notifications", "/">> \o Alice
LiveUris == {UFeed, UNotifications}
\* a note of alice that names alice, and a reaction of alice
RE1 == SourceEvent(Str("n1"), PkAlice, 1, 1, Str("hi"), << <<Str("p"), PkAlice>> >>,
                   UNDEF, UNDEF)
RE2 == SourceEvent(Str("n2"), PkAlice, 1, 7, Str("+"), <<>>, UNDEF, UNDEF)
ResourceEvents == {RE1, RE2}

ResourceInit ==
    /\ now = 0
    /\ storage = NewStorage(0)
    /\ calls = 0
    /\ scen = -1
    /\ age = <<>>
    /\ storeOp = NoOp
    /\ EngineFresh
    /\ ToolsFresh

\* nothing of the manager concerns uri: no suspended call, no entry, no
\* open live query
Untouched(uri) ==
    /\ \A i \in 1..Len(rsm.pending) : rsm.pending[i].uri # uri
    /\ ~MapHas(rsm.subscriptions, uri)
    /\ \A q \in 1..Len(rsm.queries) : rsm.queries[q].uri = uri => ~rsm.queries[q].open

\* The resources/subscribe handler: it calls subscribe(uri, callback) without
\* awaiting it and answers {}.  subscribe() runs up to its first await; what
\* it throws before that rejects a promise nobody handles.
SubscribeRequest(uri) ==
    /\ LET start == subscribeStart(uri)
       IN  IF uri = UNDEF \/ uri = EMPTY
           THEN rsm' = [rsm EXCEPT
                    !.last = Request("subscribe", uri, "error",
                                     "Missing required parameter: uri"),
                    !.pair = NoPair]
           ELSE IF start.thrown
           THEN rsm' = [rsm EXCEPT
                    !.last = [Request("subscribe", uri, "ok", "") EXCEPT
                                 !.rejected = start.error],
                    !.pair = NoPair]
           ELSE /\ Len(rsm.pending) < MaxSuspended
                /\ rsm' = [rsm EXCEPT
                       !.pending = Append(@, [uri |-> uri, start |-> start]),
                       !.last = Request("subscribe", uri, "ok", ""),
                       !.pair = IF Untouched(uri)
                                THEN [stage |-> "subscribed", uri |-> uri,
                                      response |-> "ok"]
                                ELSE NoPair]
    /\ UNCHANGED notResource

\* subscribe() after await resolveUser(...): the pubkey check, the filter,
\* ndk.subscribe, the 'event' handler and this.subscriptions.set
SubscribeResume(i, user) ==
    /\ i \in 1..Len(rsm.pending)
    /\ LET call == rsm.pending[i]
           rest == SubSeq(rsm.pending, 1, i - 1)
                       \o SubSeq(rsm.pending, i + 1, Len(rsm.pending))
           id == Len(rsm.queries) + 1
       IN  /\ user \in resolveUser(call.start.pathParts[1])
           /\ IF user.thrown
              THEN rsm' = [rsm EXCEPT
                       !.pending = rest,
                       !.last = [Request("subscribeResumed", call.uri, "none", "")
                                    EXCEPT !.rejected = "resolveUser failed"]]
              ELSE IF user.pubkey = EMPTY
              THEN rsm' = [rsm EXCEPT
                       !.pending = rest,
                       !.last = [Request("subscribeResumed", call.uri, "none", "")
                                    EXCEPT !.rejected = "Failed to resolve pubkey"]]
              ELSE /\ id <= MaxLiveQueries
                   /\ rsm' = [rsm EXCEPT
                          !.pending = rest,
                          !.queries = Append(@, [uri |-> call.uri,
                                                 filter |-> subscribeFilter(call.start,
                                                                            user.pubkey),
                                                 open |-> TRUE]),
                          !.subscriptions = MapSet(@, call.uri, id),
                          !.last = [Request("subscribeResumed", call.uri, "none", "")
                                       EXCEPT !.query = id]]
    /\ UNCHANGED notResource

\* subscription.stop() on the live queries `ids`
StoppedLiveQueries(queries, ids) ==
    [q \in 1..Len(queries) |->
        IF q \in ids THEN [queries[q] EXCEPT !.open = FALSE] ELSE queries[q]]

\* The resources/unsubscribe handler with unsubscribe(uri)
UnsubscribeRequest(uri) ==
    /\ LET found == MapHas(rsm.subscriptions, uri)
           response == IF found THEN "ok" ELSE "error"
           pair == IF rsm.pair.stage = "subscribed" /\ rsm.pair.uri = uri
                   THEN [stage |-> "unsubscribed", uri |-> uri, response |-> response]
                   ELSE NoPair
       IN  IF uri = UNDEF \/ uri = EMPTY
           THEN rsm' = [rsm EXCEPT
                    !.last = Request("unsubscribe", uri, "error",
                                     "Missing required parameter: uri"),
                    !.pair = NoPair]
           ELSE IF ~found
           THEN rsm' = [rsm EXCEPT
                    !.last = Request("unsubscribe", uri, "error",
                                     "No active subscription found for URI"),
                    !.pair = pair]
           ELSE rsm' = [rsm EXCEPT
                    !.queries = StoppedLiveQueries(@, {MapGet(rsm.subscriptions, uri)}),
                    !.subscriptions = MapDelete(@, uri),
                    !.last = Request("unsubscribe", uri, "ok", ""),
                    !.pair = pair]
    /\ UNCHANGED notResource

\* ResourceSubscriptionManager.stopAll()
ResourceStopAll ==
    /\ rsm' = [rsm EXCEPT
           !.queries = StoppedLiveQueries(@, SeqRange(MapValues(rsm.subscriptions))),
           !.subscriptions = <<>>,
           !.last = Request("stopAll", EMPTY, "none", ""),
           !.pair = NoPair]
    /\ UNCHANGED notResource

\* the Event Source emits `event` on the open live query q
ResourceDeliver(q, event) ==
    /\ q \in 1..Len(rsm.queries)
    /\ rsm.queries[q].open
    /\ Matches(event, rsm.queries[q].filter)
    /\ Len(rsm.updates) < MaxUpdates
    /\ rsm' = [rsm EXCEPT
           !.updates = onEvent(@, rsm.queries[q].uri, event),
           !.last = [Request("event", rsm.queries[q].uri, "none", "")
                        EXCEPT !.query = q, !.event = event]]
    /\ UNCHANGED notResource

ResourceNext ==
    \/ \E uri \in LiveUris : SubscribeRequest(uri)
    \/ \E i \in 1..MaxSuspended, user \in Users : SubscribeResume(i, user)
    \/ \E uri \in LiveUris : UnsubscribeRequest(uri)
    \/ ResourceStopAll
    \/ \E q \in 1..MaxLiveQueries, event \in ResourceEvents : ResourceDeliver(q, event)

ResourceSpec == ResourceInit /\ [][ResourceNext]_vars

\* --------------------------------------------------------------- RequestSpec
\* resources/subscribe requests with URIs of every shape, and reads of the
\* feed resource with kinds lists of every shape.
\* kinds lists: "1,7", "1,x", "7x" and "x"
KindsStrings == { <<"1", ",", "7">>, <<"1", ",", "x">>, <<"7", "x">>, <<"x">> }
\* not a URL at all, a wrong scheme, an unknown host, no identity (feed and
\* user notes), an identity that does not resolve
UGarbage == <<"garbage">>
UHttp == <<"http:", "//", "feed", "/">> \o Alice
UOtherHost == <<"nostr:", "//", "relay", "/">> \o Alice
UFeedNoIdentity == <<"nostr:", "//", "feed">>
UNotesNoIdentity == <<"nostr:", "//", "user", "/", "notes">>
UNobody == FeedUri(Nobody, EMPTY)
MalformedUris == {UGarbage, UHttp, UOtherHost, UFeedNoIdentity, UNotesNoIdentity, UNobody}
\* nostr://user/alice/notes
UNotes == <<"nostr:", "//", "user", "/">> \o Alice \o <<"/", "notes">>
RequestUris ==
    MalformedUris \cup {UNotes, UNDEF}
        \cup { FeedUri(Alice, kindsStr) : kindsStr \in KindsStrings }

\* The read callback of the feed resource for nostr://feed/{pubkey}/{kinds}
\* up to ndk.subscribe in collectEvents; `user` is what resolveUser gives.
\* Nothing shared is read after the await of resolvePubkey, so the call is
\* one step.
ReadFeedCall(identity, kindsStr, user) ==
    /\ user \in resolveUser(identity)
    /\ LET uri == FeedUri(identity, kindsStr)
           kinds == parseKinds(kindsStr)
       IN  IF user.thrown
           THEN rsm' = [rsm EXCEPT !.last = Request("read", uri, "error",
                                                    "resolveUser failed")]
           ELSE IF user.pubkey = EMPTY
           THEN rsm' = [rsm EXCEPT !.last = Request("read", uri, "error",
                                                    "Failed to resolve pubkey")]
           ELSE IF kinds.thrown
           THEN rsm' = [rsm EXCEPT !.last = Request("read", uri, "error", "Invalid kind")]
           ELSE /\ Cardinality(rsm.reads) < MaxReads
                /\ rsm' = [rsm EXCEPT
                       !.reads = @ \cup {[uri |-> uri,
                                          filter |-> createNostrFilter(user.pubkey,
                                                                       kinds.kinds)]},
                       !.last = Request("read", uri, "none", "")]
    /\ UNCHANGED notResource

\* the timeout of collectEvents: subscription.stop() and the result
ReadFeedTimeout(read) ==
    /\ read \in rsm.reads
    /\ rsm' = [rsm EXCEPT !.reads = @ \ {read},
                          !.last = Request("readDone", read.uri, "ok", "")]
    /\ UNCHANGED notResource

RequestNext ==
    \/ \E uri \in RequestUris : SubscribeRequest(uri)
    \/ \E i \in 1..MaxSuspended, user \in Users : SubscribeResume(i, user)
    \/ \E identity \in {Alice, Nobody}, kindsStr \in KindsStrings, user \in Users :
           ReadFeedCall(identity, kindsStr, user)
    \/ \E read \in rsm.reads : ReadFeedTimeout(read)

RequestSpec == ResourceInit /\ [][RequestNext]_vars

\* ------------------------------------------- claims on the contentResolver
\* the activation records nest one level per recursive call, none is deeper
\* than maxDepth, a record at depth maxDepth only returns, and a call at the
\* depth limit has returned its content as it received it
ResolveDepthBounded ==
    /\ \A k \in 1..Len(rsv.stack) :
           /\ rsv.stack[k].currentDepth = k - 1
           /\ rsv.stack[k].currentDepth <= rsv.maxDepth
           /\ rsv.stack[k].currentDepth = rsv.maxDepth => rsv.stack[k].pc = "guard"
    /\ (rsv.lastReturn.pc # "none" /\ rsv.lastReturn.currentDepth >= rsv.maxDepth)
           => /\ rsv.lastReturn.pc = "guard"
              /\ rsv.lastReturn.returned = rsv.lastReturn.content

\* C17: every resolveNostrContent call returns, also on events that embed
\* each other; the recursion never goes deeper than maxDepth and the content
\* reached at depth maxDepth is returned unrewritten.
ResolveTerminates ==
    /\ []ResolveDepthBounded
    /\ (rsv.pc = "running") ~> (rsv.pc = "done")

\* C17 witness: X embeds Y and Y embeds X; the call on a text naming X with
\* maxDepth 2 has returned, and Y's content sits in the output with its
\* marker of X not rewritten.
CycleCutAtDepth ==
    /\ rsv.pc = "done"
    /\ rsv.content = <<MX>>
    /\ rsv.maxDepth = 2
    /\ rsv.errors = <<>>
    /\ \E i \in 1..(Len(rsv.output) - 1) :
           rsv.output[i] = "back " /\ rsv.output[i + 1] = MX

Frames == { rsv.stack[k] : k \in 1..Len(rsv.stack) }
HasError(frame, fullMatch) ==
    \E k \in 1..Len(frame.errors) : frame.errors[k].entity = fullMatch
\* the round just made on marker rsv'.lastStep.fullMatch recorded one soft
\* error for it
RecordedOneError(before, after) ==
    /\ Len(after.errors) = Len(before.errors) + 1
    /\ SubSeq(after.errors, 1, Len(before.errors)) = before.errors
    /\ after.errors[Len(after.errors)].entity = rsv'.lastStep.fullMatch

OneSoftErrorPerMarker ==
    rsv.pc = "done" =>
        \A i, j \in 1..Len(rsv.errors) :
            rsv.errors[i].entity = rsv.errors[j].entity => i = j

\* the debug block of `text` lists a soft error for marker fullMatch: the
\* block holds one line per entry of the outermost call's errors
ListsErrorFor(text, errors, fullMatch) ==
    /\ Len(text) > 0 /\ text[Len(text)] = "</debug>"
    /\ \E k \in 1..Len(errors) :
           /\ errors[k].entity = fullMatch
           /\ \E i \in 1..Len(text) :
                  LET line == Str("* ") \o errors[k].error \o Str("\n")
                  IN  /\ i + Len(line) - 1 <= Len(text)
                      /\ SubSeq(text, i, i + Len(line) - 1) = line

\* C35 as stated: every marker for which a soft error was recorded during a
\* resolve call, at any depth, has a soft error listed in the debug block of
\* the final result, and no call at depth >= 1 returns a debug block.
EverySoftErrorListed ==
    /\ rsv.pc = "done" =>
           \A fullMatch \in rsv.raised :
               ListsErrorFor(rsv.output, rsv.errors, fullMatch)
    /\ (rsv.lastReturn.pc # "none" /\ rsv.lastReturn.currentDepth >= 1)
           => \A i \in 1..Len(rsv.lastReturn.returned) :
                  rsv.lastReturn.returned[i] # "\n\n<debug>\n"

\* ------------------------------------------- claims on the EventProcessor
HasTag(event, name) ==
    \E i \in 1..Len(event.tags) :
        Len(event.tags[i]) >= 1 /\ event.tags[i][1] = Str(name)

\* C16: the category and priority are a function of kind and tags with
\* first-match precedence (kind 1 with a "p" tag: mention/high; else kind 1
\* with an "e" tag: reply/high; else kind 7: reaction/medium; else kind 6:
\* repost/medium; else other/low); kind 1 with a "p" tag and a reply-marked
\* "e" tag is mention/high and kind 1 with only a root-marked "e" tag is reply.
ClassifierPrecedence ==
    cls.called =>
        LET event == cls.event
            expected ==
                IF event.kind = 1 /\ HasTag(event, "p")
                THEN [category |-> "mention", priority |-> "high"]
                ELSE IF event.kind = 1 /\ HasTag(event, "e")
                THEN [category |-> "reply", priority |-> "high"]
                ELSE IF event.kind = 7
                THEN [category |-> "reaction", priority |-> "medium"]
                ELSE IF event.kind = 6
                THEN [category |-> "repost", priority |-> "medium"]
                ELSE [category |-> "other", priority |-> "low"]
        IN  /\ cls.result = expected
            /\ (event.kind = 1 /\ HasTag(event, "p")
                   /\ Marked("a", "reply") \in SeqRange(event.tags))
               => cls.result = [category |-> "mention", priority |-> "high"]
            /\ (event.kind = 1 /\ event.tags = << Marked("r", "root") >>)
               => cls.result.category = "reply"

\* C16 witness: a kind-1 event with a reply-marked "e" tag followed by a "p"
\* tag was classified as a mention.
MentionBeatsReply ==
    /\ cls.called
    /\ cls.event.kind = 1
    /\ cls.event.tags = << Marked("a", "reply"), <<Str("p"), W3>> >>
    /\ cls.context.isReply /\ cls.context.isMention
    /\ cls.result = [category |-> "mention", priority |-> "high"]

\* C30: for every event handed to the EventProcessor, threadRoot is the id
\* of its root-marked "e" tag if it has one and undefined otherwise, and
\* replyTo is the id of its reply-marked "e" tag if it has one, else the id
\* of its last "e" tag if it has an "e" tag, else undefined.
ContextNamesRootAndParent ==
    cls.called =>
        LET es == SelectSeq(cls.event.tags, LAMBDA t : Len(t) >= 1 /\ t[1] = Str("e"))
            roots == SelectSeq(es, LAMBDA t : Len(t) >= 4 /\ t[4] = Str("root"))
            replies == SelectSeq(es, LAMBDA t : Len(t) >= 4 /\ t[4] = Str("reply"))
            idOf(t) == IF Len(t) >= 2 THEN t[2] ELSE UNDEF
        IN  /\ cls.context.threadRoot = (IF roots # <<>> THEN idOf(roots[1]) ELSE UNDEF)
            /\ cls.context.replyTo = (IF replies # <<>> THEN idOf(replies[1])
                                      ELSE IF es # <<>> THEN idOf(es[Len(es)])
                                      ELSE UNDEF)
            /\ cls.event.tags = << ETag("r"), ETag("b") >>
                   => cls.context.replyTo = Str("b") /\ cls.context.threadRoot = UNDEF
            /\ cls.event.tags = << Marked("a", "reply"), Marked("r", "root") >>
                   => cls.context.replyTo = Str("a") /\ cls.context.threadRoot = Str("r")

\* C30 witness: an event with two unmarked "e" tags got the id of the last
\* one as replyTo and no threadRoot.
LastTagIsReplyTo ==
    /\ cls.called
    /\ cls.event.tags = << ETag("r"), ETag("b") >>
    /\ cls.context.replyTo = Str("b")
    /\ cls.context.threadRoot = UNDEF

\* ------------------------------------------- claims on get_conversation
Finished == conv.pc = "done" /\ conv.result.status = "ok"
\* the parent rule in the words of the claims: the id of the reply-marked
\* "e" tag if there is one, else of the only "e" tag, else of the last one
ParentByRule(event) ==
    LET es == SelectSeq(event.tags, LAMBDA t : Len(t) >= 1 /\ t[1] = Str("e"))
        replies == SelectSeq(es, LAMBDA t : Len(t) >= 4 /\ t[4] = Str("reply"))
        idOf(t) == IF Len(t) >= 2 THEN t[2] ELSE UNDEF
    IN  IF replies # <<>> THEN idOf(replies[1])
        ELSE IF es = <<>> THEN UNDEF
        ELSE idOf(es[Len(es)])

\* C11: once get_conversation has fetched an event that has no "e" tag, the
\* event is its own root, the call does not fail, and the returned path has
\* exactly one element, the event itself.
RootSelfReference ==
    (conv.requestedEvent # NullEvent
        /\ \A i \in 1..Len(conv.requestedEvent.tags) :
               conv.requestedEvent.tags[i][1] # Str("e"))
    => /\ conv.pc \in {"fetchThread", "done"}
       /\ conv.rootEventId = conv.requestedEvent.id
       /\ conv.rootEvent = conv.requestedEvent
       /\ conv.pc = "done" => /\ conv.result.status = "ok"
                              /\ conv.result.path = <<conv.requestedEvent>>

\* C11 witness: the call on the root r returned [r] although replies to r
\* were in the candidate set.
RootReturnedAlone ==
    /\ Finished
    /\ conv.requestedEvent = TR
    /\ conv.result.path = <<TR>>
    /\ {Str("c"), Str("a")} \subseteq DOMAIN conv.eventMap

\* C12: every element of a returned path is the parent, by the parent rule,
\* of the element after it; and with R, A = [e R] and B = [e R], [e A] in the
\* lookup table get_conversation(B) returns [R, A, B].
ParentRuleFollowed ==
    Finished =>
        LET path == conv.result.path
        IN  /\ \A i \in 1..(Len(path) - 1) : path[i].id = ParentByRule(path[i + 1])
            /\ (conv.requestedEvent = TB /\ Str("a") \in DOMAIN conv.eventMap)
                   => path = <<TR, TA, TB>>

\* C12 witness: the legacy chain was returned root first.
LegacyChainReturned ==
    /\ Finished
    /\ conv.requestedEvent = TB
    /\ conv.result.path = <<TR, TA, TB>>

\* C13: a returned path is non-empty, ends with the requested event, links
\* every element to the next by the parent rule, and holds no event twice;
\* when the parent of its first element is in the lookup table (no parent
\* was missing) the first element is the root; and get_conversation on a
\* reply tagged [e, R, "", reply] returns [R, reply].
PathIsChainToTarget ==
    Finished =>
        LET path == conv.result.path
        IN  /\ Len(path) >= 1
            /\ path[Len(path)] = conv.requestedEvent
            /\ \A i \in 1..(Len(path) - 1) : ParentByRule(path[i + 1]) = path[i].id
            /\ \A i \in 1..Len(path) : \A j \in 1..Len(path) :
                   path[i].id = path[j].id => i = j
            /\ (path[1].id # conv.rootEventId)
                   => ParentByRule(path[1]) \notin DOMAIN conv.eventMap
            /\ path[1].id = conv.rootEventId => path[1] = conv.rootEvent
            /\ conv.requestedEvent \in {TC, TD} => path = <<TR, conv.requestedEvent>>

\* C13 witness: get_conversation(d) returned [r, d] while the sibling reply
\* c was in the candidate set.
SimpleThreadReturned ==
    /\ Finished
    /\ conv.result.path = <<TR, TD>>
    /\ Str("c") \in DOMAIN conv.eventMap

\* C14: a call whose target is not at the Event Source ends with the error
\* "Event not found" and no path; a call whose target was found but whose
\* root is not at the Event Source ends with "Root event not found" and no
\* path.
NotFoundIsFatal ==
    [][/\ (/\ conv.pc \in {"idle", "done"}
           /\ conv' # conv
           /\ conv'.eventId # EMPTY
           /\ \A e \in relay : e.id # conv'.eventId)
          => /\ conv'.pc = "done"
             /\ conv'.result = [status |-> "error", error |-> Str("Event not found"),
                                path |-> <<>>]
       /\ (/\ conv.pc = "fetchRoot"
           /\ conv' # conv
           /\ \A e \in relay : e.id # conv.rootEventId)
          => /\ conv'.pc = "done"
             /\ conv'.requestedEvent # NullEvent
             /\ conv'.result = [status |-> "error",
                                error |-> Str("Root event not found"),
                                path |-> <<>>]
    ]_vars

\* C14 witness: the target was fetched, its root was not.
RootNotFoundSeen ==
    /\ conv.pc = "done"
    /\ conv.requestedEvent = TE
    /\ conv.result.error = Str("Root event not found")
    /\ conv.result.path = <<>>

\* C15: the walk never fails; when the parent of the earliest event reached
\* is not in the lookup table the call returns the chain collected so far,
\* which ends with the requested event and whose other elements are all in
\* the lookup table.
PartialChainReturned ==
    [][(conv.pc = "fetchThread" /\ conv' # conv) =>
        LET path == conv'.result.path
        IN  /\ conv'.pc = "done"
            /\ conv'.result.status = "ok"
            /\ Len(path) >= 1
            /\ path[Len(path)] = conv.requestedEvent
            /\ \A i \in 1..(Len(path) - 1) :
                   /\ path[i].id \in DOMAIN conv'.eventMap
                   /\ path[i] = conv'.eventMap[path[i].id]
            /\ \/ path[1].id = conv.rootEventId
               \/ ParentByRule(path[1]) \notin DOMAIN conv'.eventMap
    ]_vars

\* C15 witness: the walk from f reached e, whose parent c was not in the
\* lookup table, and [e, f] was returned.
BrokenChainSeen ==
    /\ Finished
    /\ conv.result.path = <<TE, TF>>
    /\ Str("c") \notin DOMAIN conv.eventMap
    /\ conv.rootEventId = Str("r")

\* the root rule in the words of the claim: the event's own id when it has no
\* "e" tag, else the id of its root-marked "e" tag, else of its first "e" tag
RootByRule(event) ==
    LET es == SelectSeq(event.tags, LAMBDA t : Len(t) >= 1 /\ t[1] = Str("e"))
        roots == SelectSeq(es, LAMBDA t : Len(t) >= 4 /\ t[4] = Str("root"))
        idOf(t) == IF Len(t) >= 2 THEN t[2] ELSE UNDEF
    IN  IF es = <<>> THEN event.id
        ELSE IF roots # <<>> THEN idOf(roots[1])
        ELSE idOf(es[1])

\* C29: once get_conversation has fetched the requested event, the root id
\* it works with is the one the root rule gives: the event's own id without
\* "e" tags, else the id of the root-marked "e" tag wherever it stands, else
\* the id of the first "e" tag; for f = [e e reply], [e r root] it is r and
\* for b = [e r], [e a] it is r.
RootRuleFollowed ==
    conv.requestedEvent # NullEvent =>
        /\ conv.rootEventId = RootByRule(conv.requestedEvent)
        /\ conv.requestedEvent = TF => conv.rootEventId = Str("r")
        /\ conv.requestedEvent = TB => conv.rootEventId = Str("r")
        /\ conv.requestedEvent = TP => conv.rootEventId = Str("p")

\* C29 witness: the call on f, whose root-marked tag stands after its
\* reply-marked tag, returned the chain from r.
RootMarkerAfterReplyMarker ==
    /\ Finished
    /\ conv.requestedEvent = TF
    /\ TagAt(ETagsOf(TF.tags)[1], 3) = Str("reply")
    /\ conv.rootEventId = Str("r")
    /\ conv.result.path = <<TR, TC, TE, TF>>

\* C37 as stated: the path walk visits each event at most once, whatever
\* the tags of the candidates (so it ends after at most as many iterations
\* as there are events in the map).
WalkVisitsEachEventOnce ==
    conv.pc \in {"walk", "done"} =>
        \A i, j \in 1..Len(conv.conversationPath) :
            conv.conversationPath[i].id = conv.conversationPath[j].id => i = j

\* ------------------------------------- claims on the conversationTracker
\* the number of levels of a reply tree
RECURSIVE Levels(_)
Levels(replies) ==
    IF replies = <<>> THEN 0
    ELSE 1 + LET below == { Levels(replies[k].replies) : k \in 1..Len(replies) }
             IN  CHOOSE n \in below : \A m \in below : m <= n

\* the deepest level of a thread's replies, in either variant
DeepestLevel(thread) ==
    IF trk.variant = "tree" THEN Levels(thread.replies)
    ELSE IF thread.replies = <<>> THEN 0
    ELSE LET levels == { thread.replies[k].level : k \in 1..Len(thread.replies) }
         IN  CHOOSE n \in levels : \A m \in levels : m <= n

IsStoreOp == storeOp.op \in {"store", "build"}

\* C1: after every store() call, on a store of any capacity N >= 0 and for
\* new keys and re-stores in any order, size() <= N.
StoreNeverExceedsCapacity ==
    IsStoreOp => size(storage) <= storage.maxSize

\* C1 witness: a store() call on a full store of capacity >= 1 has evicted.
StoreEvictedAtCapacity ==
    /\ IsStoreOp
    /\ storage.maxSize >= 1
    /\ calls > storage.maxSize
    /\ size(storage) = storage.maxSize
    /\ \E k \in DOMAIN age : age[k] > storage.maxSize

\* C2: a store() call evicts exactly the keys needed to get back to capacity,
\* each evicted key was inserted (by the call that found it absent) before
\* every key that stays, a
\* re-stored key keeps its place and gets the new value, and capacity 2 with
\* store k1, k2, k3 leaves exactly k2 and k3.
EvictsOldestInserted ==
    [][calls' = calls + 1 =>
        LET key == storeOp'.key
            before == MapKeys(storage.notifications) \cup {key}
            after == MapKeys(storage'.notifications)
            stamp(k) == IF k \in DOMAIN age THEN age[k] ELSE calls'
        IN  /\ after \subseteq before
            /\ Cardinality(after) = Min(Cardinality(before), storage.maxSize)
            /\ \A e \in before \ after : \A k \in after : stamp(e) < stamp(k)
            /\ key \in after => MapGet(storage'.notifications, key) = storeOp'.value
            /\ \A k \in after \ {key} :
                   MapGet(storage'.notifications, k) = MapGet(storage.notifications, k)
            /\ (scen' = 3 /\ storage.maxSize = 2) => after = {K2, K3}
    ]_vars

\* C2 witness: capacity 2, four calls, the third a re-store of a present key,
\* the fourth evicting the oldest-inserted key.
EvictionAfterRestore ==
    /\ storage.maxSize = 2
    /\ calls = 4
    /\ { age[k] : k \in DOMAIN age } = {2, 4}

\* entries of the store that were built from source event id `id` for agent `w`
EntriesFor(st, id, w) ==
    { i \in 1..Len(st.notifications) :
        /\ st.notifications[i].value.pubkey = w
        /\ \E j \in 1..Len(st.notifications[i].value.tags) :
               st.notifications[i].value.tags[j] = <<Str("e"), OrElse(id, EMPTY)>> }

\* C3 as stated: after build(e, w) was stored twice in a row the store holds
\* exactly one entry for e.
TwoBuildsLeaveOneEntry ==
    (storeOp.op = "build" /\ storeOp.again) =>
        Cardinality(EntriesFor(storage, storeOp.event, storeOp.agent)) = 1

\* C3 amended: storing build(e, w) a second time does not change size(), and
\* leaves exactly one entry for e when the capacity is >= 1 and none when
\* the capacity is 0.
TwoBuildsLeaveOneEntryIfRoom ==
    [][(storeOp'.op = "build" /\ storeOp'.again /\ calls' = calls + 1) =>
        LET n == Cardinality(EntriesFor(storage', storeOp'.event, storeOp'.agent))
        IN  /\ size(storage') = size(storage)
            /\ storage.maxSize >= 1 => n = 1
            /\ storage.maxSize = 0 => n = 0
    ]_vars

\* C3 witness: the second build of the same (e, w), made one second later,
\* has overwritten the first in a store that also holds another entry.
SecondBuildOverwrote ==
    /\ storeOp.op = "build" /\ storeOp.again
    /\ size(storage) >= 2
    /\ MapHas(storage.notifications, storeOp.key)
    /\ MapGet(storage.notifications, storeOp.key).created_at = 1
    /\ Cardinality(EntriesFor(storage, storeOp.event, storeOp.agent)) = 1

\* the tags of the notification the last BuildAndStore built
BuiltTags == SeqRange(storeOp.value.tags)

NamedAs(summary, noun) == SubSeq(summary, 5, 4 + Len(noun)) = noun

\* C32 as stated: the summary names an event of a kind of the kind table with
\* the table's noun for that kind, and an event of any other kind k as
\* "kind k event".
SummaryNamesKind ==
    storeOp.op = "build" =>
        LET k == storeOp.sourceKind
        IN  NamedAs(storeOp.value.content,
                    IF k \in KnownKinds THEN KindDescription(k)
                    ELSE Str("kind ") \o Str(ToString(k)) \o Str(" event"))

\* C39: in every reachable state the eviction-order list holds exactly the
\* keys of the notification map, each once, so size() is the length of the
\* order list, after any sequence of store() and clear() calls.
OrderListsMapKeys ==
    LET order == storage.notificationOrder
    IN  /\ SeqRange(order) = MapKeys(storage.notifications)
        /\ \A i, j \in 1..Len(order) : order[i] = order[j] => i = j
        /\ size(storage) = Len(order)

\* C39 witness: a re-store of a present key in a store that holds two keys
\* and has room left, so the call pushed nothing and evicted nothing.
RestoreKeptOrderList ==
    /\ IsStoreOp
    /\ size(storage) = 2
    /\ storage.maxSize = 3
    /\ calls = 3

\* ------------------------------------- claims on the NotificationService
\* the ids of the delivered events whose notification was built
BuiltIds ==
    LET built == SelectSeq(mon.delivered, LAMBDA e : ~createNotificationThrows(e))
    IN  [i \in 1..Len(built) |-> built[i].id]

\* the source event ids the notifications of the monitored store refer to
StoredSourceIds ==
    LET ns == MapValues(mon.service.storage.notifications)
    IN  { ns[i].tags[j][2] : i \in 1..Len(ns), j \in {1} }

LastN(s, n) == SubSeq(s, Len(s) - Min(n, Len(s)) + 1, Len(s))

\* the distinct ids of a sequence, in the order they were first seen
RECURSIVE FirstSeen(_)
FirstSeen(ids) ==
    IF ids = <<>> THEN <<>>
    ELSE LET before == FirstSeen(SubSeq(ids, 1, Len(ids) - 1))
             id == ids[Len(ids)]
         IN  IF id \in SeqRange(before) THEN before ELSE Append(before, id)

\* the ids a first-in first-out list of `cap` places holds after the ids of
\* a sequence were offered to it in order, an id entering when it is offered
\* while not in the list
RECURSIVE InsertedWhileAbsent(_, _)
InsertedWhileAbsent(ids, cap) ==
    IF ids = <<>> THEN <<>>
    ELSE LET before == InsertedWhileAbsent(SubSeq(ids, 1, Len(ids) - 1), cap)
             id == ids[Len(ids)]
         IN  IF id \in SeqRange(before) THEN before
             ELSE LastN(Append(before, id), cap)

\* C33 as stated: after each delivery the processed-event count is the number
\* of deliveries so far, the store holds one notification for each of the
\* `capacity` most recently first-seen source event ids, and no error of
\* the handler reaches the Event Source.
StoreHoldsLatestFirstSeen ==
    /\ mon.service.eventCount = Len(mon.delivered)
    /\ StoredSourceIds
           = SeqRange(LastN(FirstSeen(BuiltIds), mon.service.storage.maxSize))
    /\ size(mon.service.storage) = Cardinality(StoredSourceIds)
    /\ mon.error # "thrown"

\* C33 amended: after each delivery the processed-event count is the number
\* of deliveries so far, the store holds one notification for each of the
\* `capacity` source event ids that most recently entered it (an id enters
\* when it is delivered while the store has no notification for it, so an
\* id delivered again after its eviction enters anew), and no error of the
\* handler reaches the Event Source.
StoreHoldsLatestInserted ==
    /\ mon.service.eventCount = Len(mon.delivered)
    /\ StoredSourceIds
           = SeqRange(InsertedWhileAbsent(BuiltIds, mon.service.storage.maxSize))
    /\ size(mon.service.storage) = Cardinality(StoredSourceIds)
    /\ mon.error # "thrown"

\* C33 witness: four deliveries to a store of capacity 1, the third a
\* duplicate of the first with another event in between, the fourth an
\* event whose notification cannot be built.
RedeliveredAfterEviction ==
    /\ Len(mon.delivered) = 4
    /\ mon.service.storage.maxSize = 1
    /\ mon.delivered[1] = mon.delivered[3]
    /\ mon.delivered[2] # mon.delivered[1]
    /\ mon.error = "caught"
    /\ mon.service.eventCount = 4
    /\ StoredSourceIds = {mon.delivered[1].id}

\* ------------------------------------------------- claims on retrieve()
Stored == SeqRange(MapValues(storage.notifications))
NewestFirst(results) ==
    \A i \in 1..(Len(results) - 1) : results[i].created_at >= results[i + 1].created_at

\* C19 as stated: retrieve({since, until}) returns exactly the stored
\* notifications n with since <= n.created_at when since is given and
\* n.created_at <= until when until is given, for every value of the bounds
\* including 0, each once and newest first.
RetrieveHonoursBounds ==
    [][(qry' # qry /\ qry'.filters.limit = <<>>) =>
        LET since == qry'.filters.since
            until == qry'.filters.until
            matching == { n \in Stored :
                            /\ since # <<>> => since[1] <= n.created_at
                            /\ until # <<>> => n.created_at <= until[1] }
        IN  /\ SeqRange(qry'.results) = matching
            /\ Len(qry'.results) = Cardinality(matching)
            /\ NewestFirst(qry'.results)
    ]_vars

\* C20 as stated: retrieve with a limit L >= 0 returns exactly the first
\* min(L, m) notifications of the newest-first list of the m notifications
\* that match since and until, so L = 0 returns the empty list.
RetrieveHonoursLimit ==
    [][(qry' # qry /\ qry'.filters.limit # <<>>) =>
        LET L == qry'.filters.limit[1]
            unlimited == retrieve(storage, [qry'.filters EXCEPT !.limit = <<>>])
        IN  /\ qry'.results = SubSeq(unlimited, 1, Min(L, Len(unlimited)))
            /\ L = 0 => qry'.results = <<>>
    ]_vars

\* ------------------------------------------ claims on the SubscriptionManager
managerState == <<services, svc, liveQueries, pendingAdds, reconn, deliveries>>
ServiceOf(p) == svc[MapGet(services, p)]

\* C4: addSubscription(P) for an identity P that is active (registered in the
\* services map, which is what the duplicate check reads) fails with the duplicate
\* error and leaves P's subscription (live query, start time, processed count,
\* stored notifications) and every other subscription unchanged.
DuplicateAddRejected ==
    [][\A p \in Agents :
        (lastOp'.op = "addSubscription" /\ lastOp'.pubkey = p /\ now' = now
            /\ MapHas(services, p))
        => (lastOp'.result = "duplicate" /\ UNCHANGED managerState)
    ]_vars

\* C4 witness: a duplicate addSubscription was rejected while the existing
\* subscription had already processed an event.
DuplicateAddSeen ==
    /\ lastOp.op = "addSubscription" /\ lastOp.result = "duplicate"
    /\ MapHas(services, lastOp.pubkey)
    /\ ServiceOf(lastOp.pubkey).eventCount > 0
    /\ ServiceOf(lastOp.pubkey).subscription \in liveQueries

\* C5 as stated: no event handler runs on a live query opened for P after
\* removeSubscription(P) returned true (with no call in flight), until P is
\* added again.
NoEventAfterRemove ==
    ~(lastOp.op = "event" /\ lastOp.pubkey \in removed)

\* C6 as stated: when handleReconnection() has completed, every identity
\* registered before it is registered with the same processed-event count.
ReconnectionKeepsCounts ==
    (lastOp.op = "handleReconnectionDone" /\ lastOp.result = "ok" /\ atReconnect.quiet)
    => \A p \in atReconnect.keys :
           /\ MapHas(services, p)
           /\ ServiceOf(p).eventCount = atReconnect.counts[p]

\* C7 as stated: when handleReconnection() has completed, getNotifications(P)
\* returns the same set of notifications as immediately before the call.
ReconnectionKeepsNotifications ==
    (lastOp.op = "handleReconnectionDone" /\ lastOp.result = "ok" /\ atReconnect.quiet)
    => \A p \in atReconnect.keys :
           /\ MapHas(services, p)
           /\ SeqRange(getNotifications(ServiceOf(p), NoFilters)) = atReconnect.stored[p]

\* C8: removeSubscription(P) returns true exactly when P was registered (it has
\* no other outcome), P is not registered afterwards, a call that directly
\* follows a removeSubscription(P) returns false, and a call that returns
\* false changes no state.
RemoveReturnsWhetherRegistered ==
    [][\A p \in Agents :
        (lastOp'.op = "removeSubscription" /\ lastOp'.pubkey = p /\ now' = now)
        => /\ lastOp'.result = (IF MapHas(services, p) THEN "true" ELSE "false")
           /\ ~MapHas(services', p)
           /\ lastOp'.again => lastOp'.result = "false"
           /\ lastOp'.result = "false" => UNCHANGED managerState
    ]_vars

\* C8 witness: a second removeSubscription(P) in a row returned false while
\* another identity stayed registered with its live query open.
SecondRemoveReturnedFalse ==
    /\ lastOp.op = "removeSubscription" /\ lastOp.again /\ lastOp.result = "false"
    /\ \E p \in Agents \ {lastOp.pubkey} :
           MapHas(services, p) /\ ServiceOf(p).subscription \in liveQueries

\* C9 as stated: after stopAll() (called with no call in flight) no live query
\* is open.
StopAllClosesEveryQuery ==
    (lastOp.op = "stopAll" /\ lastOp.result = "quiet") => liveQueries = {}

\* C10 as stated: at most one open live query per watched identity.
OneLiveQueryPerIdentity ==
    \A q1 \in liveQueries : \A q2 \in liveQueries :
        svc[q1].agentPubkey = svc[q2].agentPubkey => q1 = q2

\* C22: when ndk.subscribe throws during addSubscription(P), the call fails
\* with that error, P is not registered, the manager (every other
\* subscription, every live query, every suspended call) is unchanged, and an
\* addSubscription(P) that directly follows is not rejected as a duplicate.
FailedAddLeavesNoTrace ==
    [][\A p \in Agents :
        /\ (lastOp'.op = "addSubscription" /\ lastOp'.pubkey = p /\ now' = now
               /\ lastOp'.result = "subscribeFailed")
           => (~MapHas(services, p) /\ ~MapHas(services', p) /\ UNCHANGED managerState)
        /\ (lastOp.op = "addSubscription" /\ lastOp.result = "subscribeFailed"
               /\ lastOp.pubkey = p
               /\ lastOp'.op = "addSubscription" /\ lastOp'.pubkey = p /\ now' = now)
           => lastOp'.result \in {"awaiting", "subscribeFailed"}
    ]_vars

\* C22 witness: an addSubscription(P) has just failed on ndk.subscribe while
\* another identity is registered with its live query open.
FailedAddSeen ==
    /\ lastOp.op = "addSubscription" /\ lastOp.result = "subscribeFailed"
    /\ ~MapHas(services, lastOp.pubkey)
    /\ \E p \in Agents \ {lastOp.pubkey} :
           MapHas(services, p) /\ ServiceOf(p).subscription \in liveQueries

\* C24 as stated: while handleReconnection() is suspended at an await, every
\* identity that was registered when it started is still found in the
\* services map by the operation that runs next: removeSubscription(P)
\* returns true and addSubscription(P) is rejected as a duplicate.
ReconnectionNeverHidesIdentity ==
    [][\A p \in Agents :
        (reconn.pc = "awaiting" /\ atReconnect.quiet /\ p \in atReconnect.keys
            /\ lastOp'.pubkey = p /\ now' = now)
        => /\ MapHas(services, p)
           /\ lastOp'.op = "removeSubscription" => lastOp'.result = "true"
           /\ lastOp'.op = "addSubscription" => lastOp'.result = "duplicate"
    ]_vars

\* C25 as stated: when handleReconnection() has ended because ndk.subscribe
\* threw for one identity, every identity registered before the call is
\* still registered.
FailedReconnectionKeepsIdentities ==
    (lastOp.op = "handleReconnectionDone" /\ lastOp.result = "subscribeFailed"
        /\ atReconnect.quiet)
    => \A p \in atReconnect.keys : MapHas(services, p)

OpenQueriesFor(uri) ==
    { q \in 1..Len(rsm.queries) : rsm.queries[q].open /\ rsm.queries[q].uri = uri }
RegisteredQuery(uri, q) ==
    MapHas(rsm.subscriptions, uri) /\ MapGet(rsm.subscriptions, uri) = q

\* C21: every event the Event Source emits on the live query registered for
\* a URI u invokes the update callback exactly once, with (u, event), after
\* the invocations for the events received before it, also when the same
\* event was passed to the callback before.
EveryEventInvokesCallback ==
    [][\A q \in 1..Len(rsm.queries) :
        (rsm'.last.op = "event" /\ rsm'.last.query = q /\ rsm' # rsm
            /\ RegisteredQuery(rsm.queries[q].uri, q))
        => rsm'.updates = Append(rsm.updates, [uri |-> rsm.queries[q].uri,
                                               event |-> rsm'.last.event])
    ]_vars

\* C21 witness: the same event was received twice on the registered live
\* query of the feed URI and the callback was invoked twice with it.
DuplicateInvokedTwice ==
    /\ rsm.last.op = "event"
    /\ RegisteredQuery(UFeed, rsm.last.query)
    /\ rsm.updates = << [uri |-> UFeed, event |-> RE1], [uri |-> UFeed, event |-> RE1] >>

\* C26 as stated: every open live query of the manager is the one
\* registered for its URI, hence at most one is open per URI.
OneLiveQueryPerUri ==
    \A q \in 1..Len(rsm.queries) :
        rsm.queries[q].open => RegisteredQuery(rsm.queries[q].uri, q)

\* C27 as stated: when a resources/subscribe request for u (made while
\* nothing of the manager concerned u) was followed by a resources/unsubscribe
\* request for u, with no other request in between, the unsubscribe request
\* succeeded and, once the subscribe() call is no longer suspended, no
\* subscription is registered and no live query is open for u.
SubscribeThenUnsubscribeLeavesNothing ==
    rsm.pair.stage = "unsubscribed" =>
        /\ rsm.pair.response = "ok"
        /\ (\A i \in 1..Len(rsm.pending) : rsm.pending[i].uri # rsm.pair.uri)
               => (~MapHas(rsm.subscriptions, rsm.pair.uri)
                      /\ OpenQueriesFor(rsm.pair.uri) = {})

\* C23 as stated: a resources/subscribe request whose URI is malformed or
\* unsupported is answered with an error, and no subscription is registered
\* and no live query is open for such a URI.
MalformedSubscribeRefused ==
    /\ (rsm.last.op = "subscribe" /\ rsm.last.uri \in MalformedUris)
           => rsm.last.response = "error"
    /\ \A uri \in MalformedUris :
           ~MapHas(rsm.subscriptions, uri) /\ OpenQueriesFor(uri) = {}

\* the kinds list of a feed URI (the second part of its path), EMPTY if none
KindsOfUri(uri) ==
    LET parsedUri == ParseUrl(uri)
        pathParts == pathPartsOf(parsedUri.pathname)
    IN  IF parsedUri.valid /\ parsedUri.hostname = Str("feed") /\ Len(pathParts) >= 2
        THEN pathParts[2]
        ELSE EMPTY
\* some entry of the comma-separated list is not a number
NonNumericKinds(kindsStr) ==
    /\ kindsStr # EMPTY
    /\ \E i \in 1..Len(split(kindsStr, ",")) :
           LET entry == split(kindsStr, ",")[i]
           IN  entry = EMPTY \/ \E j \in 1..Len(entry) : ~IsDigit(entry[j])

\* C28 as stated: a feed read or a resources/subscribe request whose kinds
\* list has a non-numeric entry is answered with an error, and no live
\* query is open for such a request.
NonNumericKindsRejected ==
    /\ (rsm.last.op \in {"subscribe", "read"} /\ rsm.last.uri # UNDEF
            /\ NonNumericKinds(KindsOfUri(rsm.last.uri)))
           => rsm.last.response = "error"
    /\ \A q \in 1..Len(rsm.queries) :
           rsm.queries[q].open => ~NonNumericKinds(KindsOfUri(rsm.queries[q].uri))
    /\ \A read \in rsm.reads : ~NonNumericKinds(KindsOfUri(read.uri))

====
